---- MODULE Spec2Model ----
(***************************************************************************)
(* A model of the SGP4/SDP4 propagator core (src/src/lib.rs and            *)
(* src/src/deep_space.rs): Constants::new, Constants::initial_state,       *)
(* ResonanceState::integrate, Constants::deep_space_orbital_elements and   *)
(* Constants::propagate_from_state with its two convenience wrappers.      *)
(*                                                                         *)
(* The code computes in f64.  The model computes in fixed point:           *)
(*   angles            1e-3  rad        (mrad)                             *)
(*   eccentricities    1e-6                                                *)
(*   mean motions      1e-10 rad/min                                       *)
(*   lengths           1e-2  earth radii                                   *)
(*   times             1     min                                           *)
(* Quotients truncate toward zero.  A target time is an integer, so the    *)
(* two zeros of f64 are one value here: is_sign_positive only decides      *)
(* anything in integrate when self.t != 0, and then a zero target is       *)
(* rejected by the magnitude test whatever its sign bit.                   *)
(***************************************************************************)
EXTENDS Integers, Sequences, FiniteSets, TLC

VARIABLES inp, consts, slot, fed, out, callers

vars == <<inp, consts, slot, fed, out, callers>>

(***************************************************************************)
(* Fixed-point scales (not program constants).                             *)
(***************************************************************************)
EccOne == 10^6

Milli == 10^3


(***************************************************************************)
(* Bounds of the model.                                                    *)
(***************************************************************************)
\* target times are the multiples of half an integrator step, up to MaxK of them
\* either side of the epoch
MaxK == 3

\* the number of calls each of the callers of a shared Constants makes
MaxCalls == 2

\* the targets of a long run are the multiples of half an integrator step, up
\* to MaxFar of them either side of the epoch
MaxFar == 5


(***************************************************************************)
(* Program constants.                                                      *)
(***************************************************************************)
\* model::PI and 2.0 * model::PI, in mrad
PI == 3142

TwoPi == 6283

\* |dt| = 720 min
DELTA_T == 720

HalfStep == DELTA_T \div 2

Targets == {k * HalfStep : k \in -MaxK..MaxK}

\* lambda31, lambda22, lambda33, G22 .. G54, in mrad
LAMBDA31 == 131

LAMBDA22 == 2884

LAMBDA33 == 374

G22 == 5769

G32 == 952

G44 == 1801

G52 == 1051

G54 == 4411

\* 2.0 * model::PI / 255.0 = 0.02463994238..., in 1e-10 rad/min: for a mean
\* motion n on the 1e-10 grid, n > 2 pi / 255 iff n > NearEarthLimit
NearEarthLimit == 246399423

\* the resonance windows of deep_space::constants, in 1e-10 rad/min
OneDayLow == 34906585

OneDayHigh == 52359877

HalfDayLow == 82600000

HalfDayHigh == 92400000

\* 0.5, in 1e-6
HalfDayMinEcc == 500000

\* geopotential.ke (WGS84: 0.07436685316871385), in 1e-10
KE == 743668532

\* 0.2 rad, in mrad
LowInclination == 200

\* model::SIDEREAL_SPEED = 4.37526908801129966e-3 rad/min, in 1e-10 rad/min
SIDEREAL_SPEED == 43752691

\* nS and nL, in 1e-10 rad/min; eS and eL, in 1e-6
SOLAR_MEAN_MOTION == 119459

LUNAR_MEAN_MOTION == 1583522

SOLAR_ECCENTRICITY == 16750

LUNAR_ECCENTRICITY == 54900

\* geopotential.j3 / geopotential.j2 (WGS84: -0.0023389), in 1e-6
J3OverJ2 == -2339

\* geopotential.j2 (WGS84: 1.08262998905e-3), in 1e-9
J2 == 1082630

\* -0.001 and 1e-6, in 1e-6
EccLowest == -1000

EccFloor == 1

(***************************************************************************)
(* f64 helpers.                                                            *)
(***************************************************************************)
Abs(x) == IF x < 0 THEN -x ELSE x

\* `let v = e; body` is written The({body : v \in {e}}): e is computed once
The(S) == CHOOSE v \in S : TRUE

\* a / b rounded toward zero (b > 0)
TruncDiv(a, b) == IF a >= 0 THEN a \div b ELSE -((-a) \div b)

\* f64 `%`: the remainder has the sign of the dividend
Rem(a, m) == a - m * TruncDiv(a, m)

\* a variant of rem_euclid that mirrors a negative remainder
RemEuclidAbs(a, m) == Abs(Rem(a, m))

\* a variant of rem_euclid with values in ]0, m]
RemEuclidUpper(a, m) == The({IF r <= 0 THEN r + m ELSE r : r \in {Rem(a, m)}})

\* f64::rem_euclid: let r = a % m; if r < 0 { r + |m| } else { r }
RemEuclid(a, m) == The({IF r < 0 THEN r + m ELSE r : r \in {Rem(a, m)}})

\* f64::is_sign_positive on a value that is not -0.0
IsSignPositive(x) == x >= 0

Max(a, b) == IF a >= b THEN a ELSE b

\* rate * t in mrad, for an angular rate in 1e-10 rad/min
MotionMul(rate, t) == TruncDiv(TruncDiv(rate, 10^4) * t, Milli)

\* rate * t in 1e-6, for a rate in 1e-9 per minute
EccRateMul(rate, t) == TruncDiv(rate * t, Milli)

\* 1000 sin(z) for z in 0..PI mrad (Bhaskara: 16 z (pi - z) / (5 pi^2 - 4 z (pi - z)))
SinHalf(z) ==
    LET q == z * (PI - z)
    IN  (((4 * q) \div 10) * 1000) \div ((12340205 - q) \div 10)

\* 1000 sin(x), x in mrad
Sin(x) ==
    The({IF y < PI THEN SinHalf(y) ELSE -SinHalf(y - PI) : y \in {RemEuclid(x, TwoPi)}})

\* 1000 cos(x), x in mrad
Cos(x) == Sin(x + 1571)

RECURSIVE CubeRootIn(_, _, _)
\* the largest a in lo..hi with a^3 <= x (lo^3 <= x)
CubeRootIn(lo, hi, x) ==
    IF lo >= hi THEN lo
    ELSE LET mid == (lo + hi + 1) \div 2
         IN  IF mid * mid * mid <= x THEN CubeRootIn(mid, hi, x)
             ELSE CubeRootIn(lo, mid - 1, x)

RECURSIVE SqrtIn(_, _, _)
\* the largest a in lo..hi with a^2 <= x (lo^2 <= x)
SqrtIn(lo, hi, x) ==
    IF lo >= hi THEN lo
    ELSE LET mid == (lo + hi + 1) \div 2
         IN  IF mid * mid <= x THEN SqrtIn(mid, hi, x)
             ELSE SqrtIn(lo, mid - 1, x)

\* atan(r / 1000) in mrad for r in 0..1000: x (pi/4 + 0.273 (1 - x))
AtanUnit(r) == (r * (785 + (273 * (1000 - r)) \div 1000)) \div 1000

\* y.atan2(x) in mrad, in -PI..PI
Atan2(y, x) ==
    IF x = 0 /\ y = 0 THEN 0
    ELSE LET ax == Abs(x)
             ay == Abs(y)
             oct == IF ay <= ax THEN AtanUnit((1000 * ay) \div ax)
                    ELSE 1571 - AtanUnit((1000 * ax) \div ay)
             half == IF x < 0 THEN PI - oct ELSE oct
         IN  IF y < 0 THEN -half ELSE half

\* an f64 that is not a number, or an infinity
NonFinite(kind) == [nonfinite |-> kind]

\* (ke / n).powf(2.0 / 3.0) in 1e-2 earth radii, for 0.0016 < n (n in 1e-10 rad/min);
\* ke / 0.0 is +inf and so is its power, a negative base with the exponent
\* 2/3 gives NaN
SemiMajorAxis(n) ==
    IF n = 0 THEN NonFinite("inf")
    ELSE IF n < 0 THEN NonFinite("NaN")
    ELSE The({CubeRootIn(0, 1200, 100 * r100 * r100) : r100 \in {KE \div (n \div 100)}})

(***************************************************************************)
(* Results.                                                                *)
(***************************************************************************)
Err(m) == [tag |-> "Err", msg |-> m]

NotBuilt == [tag |-> "NotBuilt"]

None == [tag |-> "None"]

Panic(m) == [tag |-> "Panic", msg |-> m]


(***************************************************************************)
(* Orbit::from_kozai_elements.                                             *)
(*                                                                         *)
(* Its arguments are a record q.  The mean motion it derives is an f64     *)
(* that may be NaN or infinite: Finite(v) with v in 1e-10 rad/min, or      *)
(* NonFinite(kind).                                                        *)
(***************************************************************************)
Finite(v) == [nonfinite |-> "no", v |-> v]

\* a variant of `x <= 0.0` that holds for NaN
LeZeroOrNaN(x) == x.nonfinite = "NaN" \/ (x.nonfinite = "no" /\ x.v <= 0)

\* f64 `x <= 0.0`: false for NaN and for +inf
LeZero(x) == x.nonfinite = "no" /\ x.v <= 0

\* 1.0 - eccentricity.powi(2) in 1e-6
OneMinusEccSq(eccentricity) ==
    The({EccOne - em * em : em \in {TruncDiv(eccentricity, Milli)}})

\* p2 = 0.75 j2 (3 cos^2 I0 - 1) / (1 - e0^2)^(3/2) in 1e-6, for 1 - e0^2 = p1 > 0
KozaiP2(inclination, p1) ==
    The({TruncDiv(TruncDiv(TruncDiv(3 * J2, 4) * x, Milli) * Milli, p15) :
             x \in {TruncDiv(3 * c * c, Milli) - Milli : c \in {Cos(inclination)}},
             p15 \in {TruncDiv(p1 * SqrtIn(0, Milli, p1), Milli)}})

\* d1 = p2 / a1^2 in 1e-3, for p2 in 1e-6 and a1 in 1e-2 earth radii
KozaiD1(p2, a1) == TruncDiv(TruncDiv(TruncDiv(p2 * 100, a1) * 100, a1), Milli)

\* 1 - d1^2 - d1 (1/3 + 134 d1^2 / 81) in 1e-3
KozaiSeries(d1) ==
    The({Milli - sq - TruncDiv(d1 * (333 + TruncDiv(134 * sq, 81)), Milli) :
             sq \in {TruncDiv(d1 * d1, Milli)}})

\* n0 / (1 + d0) for d0 = d1 / series^2 in 1e-3, with n0 and the quotient in
\* 1e-10 rad/min; d0 is infinite when the series vanishes, and the quotient a
\* zero; 1 + d0 is positive (d1 / series^2 > -0.43 for every d1)
KozaiQuotient(n0, d1, series) ==
    IF series = 0 THEN Finite(0)
    ELSE The({IF scale <= 2 * 10^6
              THEN Finite(TruncDiv(n0, scale) * Milli + TruncDiv(Rem(n0, scale) * Milli, scale))
              ELSE Finite(TruncDiv(n0, TruncDiv(scale, Milli))) :
                  scale \in {Milli + TruncDiv(TruncDiv(Milli * d1, Abs(series)) * Milli,
                                              Abs(series))}})

\* kozai_mean_motion / (1.0 + d0) with d0 = p2 / (a1 series)^2 = d1 / series^2:
\* NaN when 1 - e0^2 is negative (its power 3/2 is NaN) or zero (p2 is
\* infinite or 0/0, and d0 is inf/inf or a NaN)
BrouwerMeanMotion(q) ==
    The({IF p1 <= 0 THEN NonFinite("NaN")
         ELSE The({KozaiQuotient(q.kozai_mean_motion, d1, KozaiSeries(d1)) :
                       d1 \in {KozaiD1(KozaiP2(q.inclination, p1),
                                       SemiMajorAxis(q.kozai_mean_motion))}}) :
             p1 \in {OneMinusEccSq(q.eccentricity)}})

\* the Orbit that from_kozai_elements builds around a mean motion
OrbitOf(q, mean_motion) ==
    [inclination |-> q.inclination, right_ascension |-> q.right_ascension,
     eccentricity |-> q.eccentricity, argument_of_perigee |-> q.argument_of_perigee,
     mean_anomaly |-> q.mean_anomaly, mean_motion |-> mean_motion]

\* Orbit::from_kozai_elements
FromKozaiElements(q) ==
    IF q.kozai_mean_motion <= 0
    THEN Err("the Kozai mean motion must be positive")
    ELSE The({IF LeZero(mean_motion)
              THEN Err("the Brouwer mean motion must be positive")
              ELSE [tag |-> "Ok", orbit |-> OrbitOf(q, mean_motion)] :
                  mean_motion \in {BrouwerMeanMotion(q)}})


(***************************************************************************)
(* Constants::new.                                                         *)
(*                                                                         *)
(* An input `i` holds the caller's arguments (orbit_0, drag_term, t0 and   *)
(* sidereal_time_0, the value the epoch_to_sidereal_time callback returns  *)
(* for t0) together with the values of the coefficient formulas that the   *)
(* model does not evaluate numerically: p13, k14, p14, c1, c4, k0, k1      *)
(* (lib.rs 88-211), the third-body dots and perturbations (third_body.rs)  *)
(* and the resonance coefficients (deep_space.rs 192-449).  Those are      *)
(* drawn from grids.  Angular rates are in 1e-10 rad/min, eccentricity     *)
(* rates in 1e-9 per minute.                                               *)
(***************************************************************************)
\* Resonant::Yes of the 24 h window (deep_space.rs 177-229)
OneDayResonant(i) ==
    [tag |-> "Yes",
     lambda_0 |-> Rem(i.orbit_0.mean_anomaly + i.orbit_0.right_ascension
                      + i.orbit_0.argument_of_perigee - i.sidereal_time_0, TwoPi),
     lambda_dot_0 |-> i.p14 + (i.k14 + i.p13) - SIDEREAL_SPEED
                      + (i.solar_dots.mean_anomaly + i.lunar_dots.mean_anomaly)
                      + (i.solar_dots.argument_of_perigee + i.lunar_dots.argument_of_perigee)
                      + (i.solar_dots.right_ascension + i.lunar_dots.right_ascension)
                      - i.orbit_0.mean_motion,
     sidereal_time_0 |-> i.sidereal_time_0,
     resonance |-> [tag |-> "OneDay", dr1 |-> i.dr[1], dr2 |-> i.dr[2], dr3 |-> i.dr[3]]]

\* Resonant::Yes of the 12 h window (deep_space.rs 231-450)
HalfDayResonant(i) ==
    [tag |-> "Yes",
     lambda_0 |-> Rem(i.orbit_0.mean_anomaly + i.orbit_0.right_ascension
                      + i.orbit_0.right_ascension - i.sidereal_time_0
                      - i.sidereal_time_0, TwoPi),
     lambda_dot_0 |-> i.p14
                      + (i.solar_dots.mean_anomaly + i.lunar_dots.mean_anomaly)
                      + 2 * (i.p13 + (i.solar_dots.right_ascension + i.lunar_dots.right_ascension)
                             - SIDEREAL_SPEED)
                      - i.orbit_0.mean_motion,
     sidereal_time_0 |-> i.sidereal_time_0,
     resonance |-> [tag |-> "HalfDay", d |-> i.d, k14 |-> i.k14]]

\* a variant of the classification whose 24 h window includes its upper end
ResonantInclusive(i) ==
    LET n == i.orbit_0.mean_motion
        e == i.orbit_0.eccentricity
    IN  IF n <= OneDayHigh /\ n > OneDayLow THEN OneDayResonant(i)
        ELSE IF n >= HalfDayLow /\ n <= HalfDayHigh /\ e >= HalfDayMinEcc
        THEN HalfDayResonant(i)
        ELSE [tag |-> "No", a0 |-> SemiMajorAxis(n)]

\* the `resonant` field of Method::DeepSpace (deep_space.rs 170-454)
Resonant(i) ==
    LET n == i.orbit_0.mean_motion
        e == i.orbit_0.eccentricity
    IN  IF (n < OneDayHigh /\ n > OneDayLow)
           \/ (n >= HalfDayLow /\ n <= HalfDayHigh /\ e >= HalfDayMinEcc)
        THEN IF n < OneDayHigh /\ n > OneDayLow
             THEN OneDayResonant(i)
             ELSE HalfDayResonant(i)
        ELSE [tag |-> "No", a0 |-> SemiMajorAxis(n)]

\* a variant that asks for the sidereal time of every deep-space orbit
DeepSpaceSiderealCallsEager(i) == <<i.t0>>

\* the arguments of the calls deep_space::constants makes to
\* epoch_to_sidereal_time: one call, inside the branch that builds
\* Resonant::Yes (deep_space.rs 170-175)
DeepSpaceSiderealCalls(i) == IF Resonant(i).tag = "Yes" THEN <<i.t0>> ELSE <<>>

\* k1 = 3/2 C1 (lib.rs 211)
K1(c1) == TruncDiv(3 * c1, 2)

\* deep_space::constants
DeepSpaceConstants(i) ==
    [tag |-> "Ok",
     orbit_0 |-> i.orbit_0,
     drag_term |-> i.drag_term,
     right_ascension_dot |-> i.p13 + (i.solar_dots.right_ascension + i.lunar_dots.right_ascension),
     argument_of_perigee_dot |->
         i.k14 + (i.solar_dots.argument_of_perigee + i.lunar_dots.argument_of_perigee),
     mean_anomaly_dot |-> i.p14 + (i.solar_dots.mean_anomaly + i.lunar_dots.mean_anomaly),
     c1 |-> i.c1, c4 |-> i.c4, k0 |-> i.k0, k1 |-> K1(i.c1),
     method |-> [tag |-> "DeepSpace",
                 eccentricity_dot |-> i.solar_dots.eccentricity + i.lunar_dots.eccentricity,
                 inclination_dot |-> i.solar_dots.inclination + i.lunar_dots.inclination,
                 solar_perturbations |-> i.solar_perturbations,
                 lunar_perturbations |-> i.lunar_perturbations,
                 resonant |-> Resonant(i)]]

\* near_earth::constants: the secular rates without the third-body dots, and
\* the semi-major axis a0 handed over by Constants::new
NearEarthConstants(i) ==
    [tag |-> "Ok",
     orbit_0 |-> i.orbit_0,
     drag_term |-> i.drag_term,
     right_ascension_dot |-> i.p13,
     argument_of_perigee_dot |-> i.k14,
     mean_anomaly_dot |-> i.p14,
     c1 |-> i.c1, c4 |-> i.c4, k0 |-> i.k0, k1 |-> K1(i.c1),
     method |-> [tag |-> "NearEarth", a0 |-> SemiMajorAxis(i.orbit_0.mean_motion)]]

\* the dispatch of Constants::new (lib.rs 213-255)
IsNearEarth(n) == n > NearEarthLimit

\* a variant of Constants::new that accepts the eccentricity 1
ConstantsNewClosed(i) ==
    IF i.orbit_0.eccentricity < 0 \/ i.orbit_0.eccentricity > EccOne
    THEN Err("the eccentricity must be in the range [0, 1[")
    ELSE IF IsNearEarth(i.orbit_0.mean_motion)
         THEN NearEarthConstants(i)
         ELSE DeepSpaceConstants(i)

\* a variant of Constants::new that also refuses a mean motion that is not positive
ConstantsNewPositive(i) ==
    IF i.orbit_0.eccentricity < 0 \/ i.orbit_0.eccentricity >= EccOne
    THEN Err("the eccentricity must be in the range [0, 1[")
    ELSE IF i.orbit_0.mean_motion <= 0
    THEN Err("the Brouwer mean motion must be positive")
    ELSE IF IsNearEarth(i.orbit_0.mean_motion)
         THEN NearEarthConstants(i)
         ELSE DeepSpaceConstants(i)

\* Constants::new
ConstantsNew(i) ==
    IF i.orbit_0.eccentricity < 0 \/ i.orbit_0.eccentricity >= EccOne
    THEN Err("the eccentricity must be in the range [0, 1[")
    ELSE IF IsNearEarth(i.orbit_0.mean_motion)
         THEN NearEarthConstants(i)
         ELSE DeepSpaceConstants(i)

\* the arguments of the calls Constants::new makes to epoch_to_sidereal_time:
\* it only hands the callback to deep_space::constants (lib.rs 237-240)
SiderealCalls(i) ==
    IF i.orbit_0.eccentricity < 0 \/ i.orbit_0.eccentricity >= EccOne
    THEN <<>>
    ELSE IF IsNearEarth(i.orbit_0.mean_motion)
         THEN <<>>
         ELSE DeepSpaceSiderealCalls(i)


(***************************************************************************)
(* ResonanceState.                                                         *)
(*                                                                         *)
(* Resonance coefficients and ni_dot are in 1e-10 rad/min^2, ni_ddot in    *)
(* 1e-14 rad/min^3.                                                        *)
(***************************************************************************)
\* a variant of ResonanceState::new whose cursor starts one step after the epoch
ResonanceStateLate(mean_motion_0, lambda_0) ==
    [tag |-> "Some", t |-> DELTA_T, mean_motion |-> mean_motion_0, lambda |-> lambda_0]

\* ResonanceState::new
ResonanceStateNew(mean_motion_0, lambda_0) ==
    [tag |-> "Some", t |-> 0, mean_motion |-> mean_motion_0, lambda |-> lambda_0]

\* DELTA_T.powi(2) / 2.0
HalfDeltaT2 == (DELTA_T * DELTA_T) \div 2

\* a variant of the guard that also rejects a target equal to the cursor
NonMonotonicInclusive(st, t) ==
    (st.t # 0 /\ IsSignPositive(st.t) # IsSignPositive(t)) \/ Abs(t) <= Abs(st.t)

\* the guard at the head of integrate (deep_space.rs 480-484)
NonMonotonic(st, t) ==
    (st.t # 0 /\ IsSignPositive(st.t) # IsSignPositive(t)) \/ Abs(t) < Abs(st.t)

\* the step of the integrator (deep_space.rs 487-491)
DeltaT(t) == IF t > 0 THEN DELTA_T ELSE -DELTA_T

\* (ni_dot, ni_ddot) of the 24 h resonance (deep_space.rs 496-506)
OneDayDots(r, st, lambda_dot) ==
    [ni_dot |-> TruncDiv(r.dr1 * Sin(st.lambda - LAMBDA31)
                         + r.dr2 * Sin(2 * (st.lambda - LAMBDA22))
                         + r.dr3 * Sin(3 * (st.lambda - LAMBDA33)), Milli),
     ni_ddot |-> TruncDiv(TruncDiv(r.dr1 * Cos(st.lambda - LAMBDA31)
                                   + 2 * r.dr2 * Cos(2 * (st.lambda - LAMBDA22))
                                   + 3 * r.dr3 * Cos(3 * (st.lambda - LAMBDA33)), Milli)
                          * TruncDiv(lambda_dot, 100), 10^4)]

\* (ni_dot, ni_ddot) of the 12 h resonance (deep_space.rs 507-559); w is the
\* argument of perigee at the integrator's time
HalfDayDots(r, st, lambda_dot, w) ==
    [ni_dot |-> TruncDiv(r.d.d2201 * Sin(2 * w + st.lambda - G22)
                         + r.d.d2211 * Sin(st.lambda - G22)
                         + r.d.d3210 * Sin(w + st.lambda - G32)
                         + r.d.d3222 * Sin(-w + st.lambda - G32)
                         + r.d.d4410 * Sin(2 * w + 2 * st.lambda - G44)
                         + r.d.d4422 * Sin(2 * st.lambda - G44)
                         + r.d.d5220 * Sin(w + st.lambda - G52)
                         + r.d.d5232 * Sin(-w + st.lambda - G52)
                         + r.d.d5421 * Sin(w + 2 * st.lambda - G54)
                         + r.d.d5433 * Sin(-w + 2 * st.lambda - G54), Milli),
     ni_ddot |-> TruncDiv(TruncDiv(r.d.d2201 * Cos(2 * w + st.lambda - G22)
                                   + r.d.d2211 * Cos(st.lambda - G22)
                                   + r.d.d3210 * Cos(w + st.lambda - G32)
                                   + r.d.d3222 * Cos(-w + st.lambda - G32)
                                   + r.d.d5220 * Cos(w + st.lambda - G52)
                                   + r.d.d5232 * Cos(-w + st.lambda - G52)
                                   + 2 * (r.d.d4410 * Cos(2 * w + 2 * st.lambda - G44)
                                          + r.d.d4422 * Cos(2 * st.lambda - G44)
                                          + r.d.d5421 * Cos(w + 2 * st.lambda - G54)
                                          + r.d.d5433 * Cos(-w + 2 * st.lambda - G54)),
                                   Milli)
                          * TruncDiv(lambda_dot, 100), 10^4)]

\* the time at which the 12 h derivatives take the argument of perigee
\* (deep_space.rs 521): the integrator's own time
PerigeeTime(st, c) == st.t

\* lambda_dot, ni_dot and ni_ddot at the head of one pass of the loop
\* (deep_space.rs 493-560)
Derivatives(st, c) ==
    LET lambda_dot == st.mean_motion + c.lambda_dot_0
    IN  [lambda_dot |-> lambda_dot]
        @@ (IF c.resonance.tag = "OneDay"
            THEN OneDayDots(c.resonance, st, lambda_dot)
            ELSE The({HalfDayDots(c.resonance, st, lambda_dot, w) :
                      w \in {c.argument_of_perigee_0
                             + MotionMul(c.resonance.k14, PerigeeTime(st, c))}}))

\* a variant of the stop test that steps until the cursor has reached the target
CrossedPast(st, t) ==
    IF t > 0 THEN t <= st.t ELSE t >= st.t

\* a variant of the stop test that stops one step early when the target is on
\* the grid
CrossedEarly(st, t) ==
    IF t > 0 THEN t - DELTA_T <= st.t ELSE t + DELTA_T >= st.t

\* a variant of the stop test that steps until the cursor is beyond the target
CrossedBeyond(st, t) ==
    IF t > 0 THEN t < st.t ELSE t > st.t

\* the stop test (deep_space.rs 561-565): t - delta_t compared with self.t is
\* Less when t > 0, Greater otherwise
Crossed(st, t) ==
    IF t > 0 THEN t - DeltaT(t) < st.t ELSE t - DeltaT(t) > st.t

\* the value returned when the loop stops (deep_space.rs 566-592)
Predictor(st, dv, c) ==
    LET tau == c.t - st.t
        sidereal_time == Rem(c.sidereal_time_0 + MotionMul(SIDEREAL_SPEED, c.t), TwoPi)
        lambda == st.lambda + MotionMul(dv.lambda_dot, tau)
                  + TruncDiv(dv.ni_dot * tau * tau, 2 * 10^7)
    IN  [p26 |-> The({SemiMajorAxis(n) :
                      n \in {st.mean_motion + dv.ni_dot * tau
                             + TruncDiv(dv.ni_ddot * tau * tau, 2 * 10^4)}}),
         p27 |-> IF c.resonance.tag = "OneDay"
                 THEN lambda - c.p21 - c.p22 + sidereal_time
                 ELSE lambda - 2 * c.p21 + 2 * sidereal_time]

\* a variant of the step whose second-order terms take the sign of delta_t
AdvanceSigned(st, dv, delta_t) ==
    [tag |-> "Some",
     t |-> st.t + delta_t,
     mean_motion |-> st.mean_motion + dv.ni_dot * delta_t
                     + TruncDiv(dv.ni_ddot * ((delta_t * Abs(delta_t)) \div 2), 10^4),
     lambda |-> st.lambda + MotionMul(dv.lambda_dot, delta_t)
                + TruncDiv(dv.ni_dot * ((delta_t * Abs(delta_t)) \div 2), 10^7)]

\* a variant of the step that moves the cursor by half of delta_t
AdvanceShort(st, dv, delta_t) ==
    [tag |-> "Some",
     t |-> st.t + delta_t \div 2,
     mean_motion |-> st.mean_motion + dv.ni_dot * delta_t
                     + TruncDiv(dv.ni_ddot * HalfDeltaT2, 10^4),
     lambda |-> st.lambda + MotionMul(dv.lambda_dot, delta_t)
                + TruncDiv(dv.ni_dot * HalfDeltaT2, 10^7)]

\* one step of the integrator (deep_space.rs 595-602)
Advance(st, dv, delta_t) ==
    [tag |-> "Some",
     t |-> st.t + delta_t,
     mean_motion |-> st.mean_motion + dv.ni_dot * delta_t
                     + TruncDiv(dv.ni_ddot * HalfDeltaT2, 10^4),
     lambda |-> st.lambda + MotionMul(dv.lambda_dot, delta_t)
                + TruncDiv(dv.ni_dot * HalfDeltaT2, 10^7)]

RECURSIVE IntegrateLoop(_, _)
\* the loop of integrate (deep_space.rs 492-603); steps counts the passes that
\* advanced the state before the pass that returned
IntegrateLoop(st, c) ==
    The({IF Crossed(st, c.t)
         THEN [tag |-> "Done", state |-> st, steps |-> 0] @@ Predictor(st, dv, c)
         ELSE The({The({[r EXCEPT !.steps = @ + 1] : r \in {IntegrateLoop(next, c)}}) :
                       next \in {Advance(st, dv, DeltaT(c.t))}}) :
         dv \in {Derivatives(st, c)}})

\* a target that is NaN, with its sign bit
NaNTarget(sign_positive) == [nonfinite |-> "NaN", sign_positive |-> sign_positive]

\* the guard at the head of integrate (deep_space.rs 480-484) for an f64
\* target: is_sign_positive reads the sign bit of a NaN, and t.abs() <
\* self.t.abs() is false when t is NaN
NonMonotonicF64(st, t) ==
    IF t.nonfinite = "no" THEN NonMonotonic(st, t.v)
    ELSE st.t # 0 /\ IsSignPositive(st.t) # t.sign_positive

\* the step of the integrator (deep_space.rs 487-491) for an f64 target:
\* t > 0.0 is false when t is NaN
DeltaTF64(t) == IF t.nonfinite = "no" THEN DeltaT(t.v) ELSE -DELTA_T

\* a variant of the stop test that stops on an undefined comparison
CrossedF64Stop(st, t) == IF t.nonfinite = "no" THEN Crossed(st, t.v) ELSE TRUE

\* the stop test (deep_space.rs 561-565) for an f64 target: partial_cmp is
\* None when t is NaN, unwrap_or makes it Equal, which is neither Less nor
\* Greater
CrossedF64(st, t) == IF t.nonfinite = "no" THEN Crossed(st, t.v) ELSE FALSE

\* ResonanceState::integrate; c holds its arguments
Integrate(st, c) ==
    IF NonMonotonic(st, c.t)
    THEN Panic("the resonance integration state must be manually reset if the target times are non-monotonic")
         @@ [state |-> st]
    ELSE IntegrateLoop(st, c)


(***************************************************************************)
(* Long-period periodic effects of one third body.  third_body.rs is not   *)
(* among the sources: of a Perturbations value the model keeps five        *)
(* amplitudes and the body's phase at epoch, and each effect is its        *)
(* amplitude times the sine of the body's phase at t.                      *)
(***************************************************************************)
LongPeriodPeriodicEffects(p, third_body_eccentricity, third_body_mean_motion, t) ==
    The({[delta_eccentricity |-> TruncDiv(p.ke * s, Milli),
          delta_inclination |-> TruncDiv(p.ki * s, Milli),
          delta_mean_motion |-> TruncDiv(p.km * s, Milli),
          l4 |-> TruncDiv(p.k4 * s, Milli),
          l5 |-> TruncDiv(p.k5 * s, Milli)] :
         s \in {Sin(p.phase_0 + MotionMul(third_body_mean_motion, t))}})

(***************************************************************************)
(* Constants::deep_space_orbital_elements.                                 *)
(***************************************************************************)
\* (p26, p27) and the state left behind (deep_space.rs 621-652)
ResonanceStep(k, state, t, p21, p22) ==
    LET r == k.method.resonant
    IN  IF r.tag = "No"
        THEN IF state.tag # "None"
             THEN Panic("state must be None with a non-resonant deep-space propagator")
                  @@ [state |-> state]
             ELSE [tag |-> "Done", state |-> state, p26 |-> r.a0,
                   p27 |-> k.orbit_0.mean_anomaly + MotionMul(k.mean_anomaly_dot, t)]
        ELSE IF state.tag = "Some"
             THEN Integrate(state,
                            [argument_of_perigee_0 |-> k.orbit_0.argument_of_perigee,
                             lambda_dot_0 |-> r.lambda_dot_0,
                             resonance |-> r.resonance,
                             sidereal_time_0 |-> r.sidereal_time_0,
                             t |-> t, p21 |-> p21, p22 |-> p22])
             ELSE Panic("state cannot be None with a deep space propagator")
                  @@ [state |-> state]

\* a variant of the test that sends an inclination of exactly 0.2 rad to the
\* low-inclination formulas
DirectNodeStrict(inclination) == inclination > LowInclination

\* the test that selects the direct formulas (deep_space.rs 670)
DirectNode(inclination) == inclination >= LowInclination

\* the reduction of p21 in the last term of the low-inclination argument of
\* perigee (deep_space.rs 712-716)
PerigeeReduction(p21, afspc_compatibility_mode) ==
    IF afspc_compatibility_mode THEN RemEuclid(p21, TwoPi) ELSE Rem(p21, TwoPi)

\* p28, the atan2 of the low-inclination node (deep_space.rs 681-692), in -PI..PI
P28(inclination, di, l5, p21) ==
    The({Atan2(si * s21 + (l5 * c21 + TruncDiv(di * ci * s21, Milli)),
               si * c21 + (-l5 * s21 + TruncDiv(di * ci * c21, Milli))) :
         si \in {Sin(inclination)}, ci \in {Cos(inclination)},
         s21 \in {Sin(p21)}, c21 \in {Cos(p21)}})

\* a variant of the wrap that returns p28 as it is
WrapNodeNever(p28, r21) == p28

\* the right ascension p28 is wrapped to (deep_space.rs 697-703); r21 is
\* p21 % 2 pi
WrapNode(p28, r21) ==
    IF p28 < r21 - PI THEN p28 + TwoPi
    ELSE IF p28 > r21 + PI THEN p28 - TwoPi
    ELSE p28

\* (right_ascension, argument_of_perigee) (deep_space.rs 670-719); di is the
\* sum of the two inclination perturbations, l4 and l5 the sums of the two
\* bodies' rotation terms
NodeAndPerigee(inclination, di, l4, l5, p21, p22, afspc_compatibility_mode) ==
    The({IF DirectNode(inclination)
         THEN The({[right_ascension |-> p21 + q,
                    argument_of_perigee |-> p22 + l4 - TruncDiv(ci * q, Milli)] :
                   q \in {TruncDiv(l5 * Milli, si)}})
         ELSE The({[right_ascension |-> right_ascension,
                    argument_of_perigee |->
                        p22 + l4 + TruncDiv(ci * (r21 - right_ascension), Milli)
                        - TruncDiv(TruncDiv(di * reduced, Milli) * si, Milli)] :
                   right_ascension \in {WrapNode(P28(inclination, di, l5, p21), r21)}}) :
         si \in {Sin(inclination)}, ci \in {Cos(inclination)},
         r21 \in {Rem(p21, TwoPi)},
         reduced \in {PerigeeReduction(p21, afspc_compatibility_mode)}})

\* p29 = e0 + e_dot t - B* C4 t (deep_space.rs 722); drag_term * c4 is in
\* 1e-9 per minute
P29(k, t) ==
    k.orbit_0.eccentricity + EccRateMul(k.method.eccentricity_dot, t)
    - EccRateMul(k.drag_term * k.c4, t)

\* a variant of the first guard that already rejects 0.99
DivergingNear(p29) == p29 >= EccOne - 10^4 \/ p29 < EccLowest

\* the first eccentricity guard (deep_space.rs 723)
Diverging(p29) == p29 >= EccOne \/ p29 < EccLowest

\* a variant of the second guard that rejects an eccentricity of exactly 1
DivergingPerturbedStrict(eccentricity) == eccentricity < 0 \/ eccentricity >= EccOne

\* the second eccentricity guard (deep_space.rs 730)
DivergingPerturbed(eccentricity) == eccentricity < 0 \/ eccentricity > EccOne

\* ke / a.powf(1.5) in 1e-10 rad/min, a in 1e-2 earth radii (a > 0)
MeanMotionOf(a) == (KE \div (a * SqrtIn(0, 1000, 100 * a))) * 10^4

\* p30 .. p34 (deep_space.rs 751-779), in 1e-6
ShortPeriodTerms(inclination) ==
    The({[p30 |-> TruncDiv(-J3OverJ2 * s, 2 * Milli),
          p31 |-> 10^6 - c * c,
          p32 |-> 7 * c * c - 10^6,
          \* |1 + cos I| > 1.5e-12 is 1 + cos I # 0 at this resolution, where
          \* sin I = 0 whenever 1 + cos I = 0
          p33 |-> IF Abs(Milli + c) > 0
                  THEN TruncDiv(TruncDiv(-J3OverJ2 * s, 4 * Milli) * (3 * Milli + 5 * c),
                                Milli + c)
                  ELSE 0,
          p34 |-> 3 * c * c - 10^6] :
         c \in {Cos(inclination)}, s \in {Sin(inclination)}})

\* a = p26 (1 - C1 t)^2 (deep_space.rs 737); c1 is in 1e-6 per minute
DraggedAxis(p26, c1, t) ==
    LET f == Milli - TruncDiv(c1 * t, Milli)
    IN  TruncDiv(p26 * f * f, 10^6)

\* the long-period periodic effects of the sun (deep_space.rs 653-658)
SolarEffects(k, t) ==
    LongPeriodPeriodicEffects(k.method.solar_perturbations,
                              SOLAR_ECCENTRICITY, SOLAR_MEAN_MOTION, t)

\* the long-period periodic effects of the moon (deep_space.rs 659-664)
LunarEffects(k, t) ==
    LongPeriodPeriodicEffects(k.method.lunar_perturbations,
                              LUNAR_ECCENTRICITY, LUNAR_MEAN_MOTION, t)

\* I = I0 + I_dot t + (dIs + dIl) (deep_space.rs 667-669)
PerturbedInclination(k, t) ==
    k.orbit_0.inclination + MotionMul(k.method.inclination_dot, t)
    + (SolarEffects(k, t).delta_inclination + LunarEffects(k, t).delta_inclination)

\* max(p29, 1e-6) + (des + del) (deep_space.rs 728-729)
PerturbedEccentricity(k, t, p29) ==
    Max(p29, EccFloor)
    + (SolarEffects(k, t).delta_eccentricity + LunarEffects(k, t).delta_eccentricity)

\* the part of deep_space_orbital_elements after the resonance step
\* (deep_space.rs 653-782); rs is what the resonance step returned
PerturbedElements(k, rs, t, p21, p22, afspc_compatibility_mode) ==
    The({IF Diverging(p29)
         THEN Err("diverging eccentricity") @@ [state |-> rs.state]
         ELSE IF DivergingPerturbed(eccentricity)
         THEN Err("diverging perturbed eccentricity") @@ [state |-> rs.state]
         ELSE The({[tag |-> "Ok", state |-> rs.state,
                    orbit |-> [inclination |-> inclination,
                               right_ascension |-> np.right_ascension,
                               eccentricity |-> eccentricity,
                               argument_of_perigee |-> np.argument_of_perigee,
                               mean_anomaly |-> mean_anomaly,
                               mean_motion |-> MeanMotionOf(a)],
                    a |-> a,
                    l |-> mean_anomaly
                          + TruncDiv(TruncDiv(TruncDiv(k.orbit_0.mean_motion, 10^6) * k.k1 * t,
                                              Milli) * t, 10^4),
                    p |-> ShortPeriodTerms(inclination)] :
                   np \in {NodeAndPerigee(inclination,
                                          solar.delta_inclination + lunar.delta_inclination,
                                          solar.l4 + lunar.l4, solar.l5 + lunar.l5,
                                          p21, p22, afspc_compatibility_mode)},
                   mean_anomaly \in {rs.p27
                                     + (solar.delta_mean_motion + lunar.delta_mean_motion)},
                   a \in {DraggedAxis(rs.p26, k.c1, t)}}) :
         solar \in {SolarEffects(k, t)}, lunar \in {LunarEffects(k, t)},
         inclination \in {PerturbedInclination(k, t)},
         p29 \in {P29(k, t)},
         eccentricity \in {PerturbedEccentricity(k, t, P29(k, t))}})

\* Constants::deep_space_orbital_elements
DeepSpaceOrbitalElements(k, state, t, p21, p22, afspc_compatibility_mode) ==
    The({IF rs.tag = "Panic" THEN rs
         ELSE PerturbedElements(k, rs, t, p21, p22, afspc_compatibility_mode) :
         rs \in {ResonanceStep(k, state, t, p21, p22)}})


(***************************************************************************)
(* Constants::near_earth_orbital_elements.  near_earth.rs is not among the *)
(* sources: the model takes the secular elements with the drag terms C1    *)
(* and C4 and the first eccentricity guard.  It is called without the      *)
(* state and without the compatibility flag (lib.rs 332).                  *)
(***************************************************************************)
NearEarthOrbitalElements(k, t, p21, p22) ==
    The({IF Diverging(p29)
         THEN Err("diverging eccentricity")
         ELSE [tag |-> "Ok",
               orbit |-> [inclination |-> k.orbit_0.inclination,
                          right_ascension |-> p21,
                          eccentricity |-> Max(p29, EccFloor),
                          argument_of_perigee |-> p22,
                          mean_anomaly |-> mean_anomaly,
                          mean_motion |-> MeanMotionOf(a)],
               a |-> a,
               l |-> mean_anomaly
                     + TruncDiv(TruncDiv(TruncDiv(k.orbit_0.mean_motion, 10^6) * k.k1 * t,
                                         Milli) * t, 10^4),
               p |-> ShortPeriodTerms(k.orbit_0.inclination)] :
         p29 \in {k.orbit_0.eccentricity - EccRateMul(k.drag_term * k.c4, t)},
         mean_anomaly \in {k.orbit_0.mean_anomaly + MotionMul(k.mean_anomaly_dot, t)},
         a \in {DraggedAxis(k.method.a0, k.c1, t)}})

(***************************************************************************)
(* Constants::propagate_from_state.  axn, ayn and the Kepler denominator   *)
(* are in 1e-3, p36 and 1 - e^2 in 1e-6.                                   *)
(***************************************************************************)
\* p21 = O0 + O_dot t + k0 t^2 (lib.rs 314); k0 is in 1e-9 rad/min^2
P21(k, t) ==
    k.orbit_0.right_ascension + MotionMul(k.right_ascension_dot, t)
    + TruncDiv(k.k0 * t * t, 10^6)

\* p22 = w0 + w_dot t (lib.rs 317)
P22(k, t) == k.orbit_0.argument_of_perigee + MotionMul(k.argument_of_perigee_dot, t)

\* a variant of the dispatch whose near-earth branch ignores the state it is given
OrbitalElementsLenient(k, t, state, afspc_compatibility_mode) ==
    The({IF k.method.tag = "NearEarth"
         THEN NearEarthOrbitalElements(k, t, p21, p22) @@ [state |-> state]
         ELSE DeepSpaceOrbitalElements(k, state, t, p21, p22, afspc_compatibility_mode) :
         p21 \in {P21(k, t)}, p22 \in {P22(k, t)}})

\* the dispatch on the method (lib.rs 318-352); the result carries the state
\* the call leaves behind
OrbitalElements(k, t, state, afspc_compatibility_mode) ==
    The({IF k.method.tag = "NearEarth"
         THEN IF state.tag # "None"
              THEN Panic("state must be None with a near-earth propagator")
                   @@ [state |-> state]
              ELSE NearEarthOrbitalElements(k, t, p21, p22) @@ [state |-> state]
         ELSE DeepSpaceOrbitalElements(k, state, t, p21, p22, afspc_compatibility_mode) :
         p21 \in {P21(k, t)}, p22 \in {P22(k, t)}})

\* a variant of the clamp with twice the range
ClampLoose(delta) == IF delta < -1900 THEN -1900 ELSE IF delta > 1900 THEN 1900 ELSE delta

\* delta clamped to [-0.95, 0.95] (lib.rs 380-386), in mrad
Clamp(delta) == IF delta < -950 THEN -950 ELSE IF delta > 950 THEN 950 ELSE delta

\* the numerator (in mrad) and the denominator (in 1e-3) of the correction of
\* one Kepler pass (lib.rs 372-373)
KeplerTerms(p35, axn, ayn, ew) ==
    The({[num |-> p35 - TruncDiv(ayn * c, Milli) + TruncDiv(axn * s, Milli) - ew,
          den |-> Milli - TruncDiv(c * axn, Milli) - TruncDiv(s * ayn, Milli)] :
         c \in {Cos(ew)}, s \in {Sin(ew)}})

\* the correction num / den in mrad, for terms that are not both zero; a zero
\* denominator gives an infinite quotient, which is clamped like any other
KeplerDelta(q) ==
    IF q.den = 0 THEN (IF q.num < 0 THEN -10^6 ELSE 10^6)
    ELSE TruncDiv(q.num * Milli, q.den)

RECURSIVE Kepler(_, _, _, _, _)
\* the Kepler loop (lib.rs 367-387) with `left` passes to go; |delta| < 1e-12
\* is delta = 0 at this resolution.  The result holds E + w, the number of
\* corrections computed, the corrections computed and those applied.  When
\* both terms vanish delta is 0/0, a NaN: it is neither below 1e-12 nor
\* outside [-0.95, 0.95], it is added to E + w as it is, and every pass that
\* is left computes a NaN again; `nan` says that E + w ended as NaN, and ew,
\* deltas and applied are then those of the passes before
Kepler(p35, axn, ayn, ew, left) ==
    IF left = 0
    THEN [nan |-> FALSE, ew |-> ew, computed |-> 0, deltas |-> <<>>, applied |-> <<>>]
    ELSE The({IF q.num = 0 /\ q.den = 0
              THEN [nan |-> TRUE, ew |-> ew, computed |-> left, deltas |-> <<>>,
                    applied |-> <<>>]
              ELSE The({IF delta = 0
                        THEN [nan |-> FALSE, ew |-> ew, computed |-> 1, deltas |-> <<delta>>,
                              applied |-> <<>>]
                        ELSE The({[r EXCEPT !.computed = @ + 1,
                                            !.deltas = <<delta>> \o @,
                                            !.applied = <<Clamp(delta)>> \o @] :
                                      r \in {Kepler(p35, axn, ayn, ew + Clamp(delta),
                                                    left - 1)}}) :
                            delta \in {KeplerDelta(q)}}) :
                  q \in {KeplerTerms(p35, axn, ayn, ew)}})

\* for _ in 0..10
KeplerPasses == 10

\* p27 = 1 / (a (1 - e^2)), axn and ayn (lib.rs 354-361): den is a (1 - e^2)
\* in 1e-2, axn and ayn are in 1e-3.  A perturbed eccentricity of exactly 1
\* passes the second guard and makes p27 infinite: ayn = e sin w + p27 p30 is
\* then infinite with the sign of p30, and NaN (infinity times zero) when
\* p30 = 0
PerigeeVector(el) ==
    The({[den |-> den,
          axn |-> TruncDiv(e * cw, Milli),
          ayn |-> IF den = 0
                  THEN IF el.p.p30 = 0 THEN NonFinite("NaN")
                       ELSE IF el.p.p30 > 0 THEN NonFinite("inf")
                       ELSE NonFinite("-inf")
                  ELSE Finite(TruncDiv(e * sw, Milli) + TruncDiv(el.p.p30 * 100, den))] :
         e \in {TruncDiv(el.orbit.eccentricity, Milli)},
         cw \in {Cos(el.orbit.argument_of_perigee)},
         sw \in {Sin(el.orbit.argument_of_perigee)},
         den \in {TruncDiv(el.a * (10^6 - TruncDiv(el.orbit.eccentricity, Milli)
                                          * TruncDiv(el.orbit.eccentricity, Milli)), Milli)}})

\* pl = a (1 - p36) with p36 = axn^2 + ayn^2 (lib.rs 388-392), in 1e-8; a > 0,
\* so an infinite ayn gives minus infinity and a NaN ayn gives NaN
SemiLatusRectum(a, v) ==
    IF v.ayn.nonfinite = "NaN" THEN NonFinite("NaN")
    ELSE IF v.ayn.nonfinite # "no" THEN NonFinite("-inf")
    ELSE Finite(a * (10^6 - (v.axn * v.axn + v.ayn.v * v.ayn.v)))

\* a variant of the test on pl that also rejects pl = 0
NotPositive(pl) == pl.nonfinite = "-inf" \/ (pl.nonfinite = "no" /\ pl.v <= 0)

\* pl < 0.0 (lib.rs 393); false for a NaN
Negative(pl) == pl.nonfinite = "-inf" \/ (pl.nonfinite = "no" /\ pl.v < 0)

\* the part of propagate_from_state after the element step (lib.rs 354-495).
\* The Cartesian transformation (lib.rs 397-494) is a function of a, E + w,
\* pl, axn, ayn, the elements and p31 .. p34: the model's Prediction keeps
\* these arguments.  A NaN pl is not below zero, so a Prediction is returned:
\* all of its values are NaN then
Transform(el) ==
    The({The({IF Negative(pl)
              THEN Err("negative semi-latus rectum")
              ELSE IF pl.nonfinite # "no"
              THEN [tag |-> "Ok", prediction |-> [nan |-> TRUE]]
              ELSE The({[tag |-> "Ok",
                         prediction |->
                             [nan |-> FALSE, orbit |-> el.orbit, a |-> el.a,
                              ew |-> The({IF r.nan THEN NonFinite("NaN") ELSE r.ew :
                                              r \in {Kepler(p35, v.axn, v.ayn.v, p35,
                                                            KeplerPasses)}}),
                              pl |-> pl.v,
                              axn |-> v.axn, ayn |-> v.ayn.v, p |-> el.p]] :
                        p35 \in {Rem(el.l + el.orbit.argument_of_perigee
                                     + TruncDiv(TruncDiv(el.p.p33 * 100, v.den) * v.axn,
                                                Milli), TwoPi)}}) :
              pl \in {SemiLatusRectum(el.a, v)}}) :
         v \in {PerigeeVector(el)}})

\* a variant of propagate_from_state that gives the state back as it was when
\* the element step fails
PropagateFromStateRollback(k, t, state, afspc_compatibility_mode) ==
    The({IF el.tag = "Ok"
         THEN Transform(el) @@ [state |-> el.state]
         ELSE [tag |-> el.tag, msg |-> el.msg, state |-> state] :
         el \in {OrbitalElements(k, t, state, afspc_compatibility_mode)}})

\* Constants::propagate_from_state: the result and the state left behind
PropagateFromState(k, t, state, afspc_compatibility_mode) ==
    The({IF el.tag = "Ok"
         THEN Transform(el) @@ [state |-> el.state]
         ELSE [tag |-> el.tag, msg |-> el.msg, state |-> el.state] :
         el \in {OrbitalElements(k, t, state, afspc_compatibility_mode)}})

\* a variant of initial_state that hands a state to every deep-space propagator
InitialStateAlways(k) ==
    IF k.method.tag = "NearEarth" THEN None
    ELSE ResonanceStateNew(k.orbit_0.mean_motion,
                           IF k.method.resonant.tag = "No" THEN 0
                           ELSE k.method.resonant.lambda_0)

\* Constants::initial_state
InitialState(k) ==
    IF k.method.tag = "NearEarth" THEN None
    ELSE IF k.method.resonant.tag = "No" THEN None
    ELSE ResonanceStateNew(k.orbit_0.mean_motion, k.method.resonant.lambda_0)

\* a variant of propagate that works on the state the caller holds
PropagateOnSlot(k, t) == PropagateFromState(k, t, slot, FALSE)

\* Constants::propagate
Propagate(k, t) == PropagateFromState(k, t, InitialState(k), FALSE)

\* Constants::propagate_afspc_compatibility_mode
PropagateAfspcCompatibilityMode(k, t) == PropagateFromState(k, t, InitialState(k), TRUE)


(***************************************************************************)
(* Inputs.                                                                 *)
(***************************************************************************)
NoDots ==
    [inclination |-> 0, right_ascension |-> 0, eccentricity |-> 0,
     argument_of_perigee |-> 0, mean_anomaly |-> 0]

NoPerturbations == [ke |-> 0, ki |-> 0, km |-> 0, k4 |-> 0, k5 |-> 0, phase_0 |-> 0]

\* eccentricity profiles: the solar eccentricity rate, the solar eccentricity
\* amplitude, the drag term with C4, C1 and k0
Quiet == [e_dot |-> 0, ke |-> 0, drag_term |-> 0, c4 |-> 0, c1 |-> 0, k0 |-> 0]

Growing == [e_dot |-> 27778, ke |-> 10000, drag_term |-> 0, c4 |-> 0, c1 |-> 0, k0 |-> 0]

Creeping == [e_dot |-> 10000, ke |-> 20000, drag_term |-> 0, c4 |-> 0, c1 |-> 0, k0 |-> 0]

Decaying == [e_dot |-> 0, ke |-> -5, drag_term |-> 5, c4 |-> 13889, c1 |-> 2, k0 |-> 1]

Shrinking == [e_dot |-> -100000, ke |-> 0, drag_term |-> 0, c4 |-> 0, c1 |-> 0, k0 |-> 0]

\* the arguments of Constants::new and the coefficient values it works with
Input(n0, e0, i0, ra0, f) ==
    [orbit_0 |-> [inclination |-> i0, right_ascension |-> ra0, eccentricity |-> e0,
                  argument_of_perigee |-> 500, mean_anomaly |-> 1000, mean_motion |-> n0],
     t0 |-> 20,
     sidereal_time_0 |-> 4000,
     drag_term |-> f.drag_term,
     p13 |-> -100000, k14 |-> 50000, p14 |-> n0 + 20000,
     c1 |-> f.c1, c4 |-> f.c4, k0 |-> f.k0,
     solar_dots |-> [NoDots EXCEPT !.eccentricity = f.e_dot],
     lunar_dots |-> NoDots,
     solar_perturbations |-> [ke |-> f.ke, ki |-> 5, km |-> 3, k4 |-> 2, k5 |-> 4,
                              phase_0 |-> 1571],
     lunar_perturbations |-> NoPerturbations,
     dr |-> <<200, 60, 20>>,
     d |-> [d2201 |-> 40, d2211 |-> 30, d3210 |-> 20, d3222 |-> 20, d4410 |-> 10,
            d4422 |-> 10, d5220 |-> 10, d5232 |-> 10, d5421 |-> 5, d5433 |-> 5]]

\* mean motions either side of every threshold of Constants::new, and two
\* that no orbit has: Constants::new takes any Orbit value
MeanMotionGrid ==
    {OneDayLow, OneDayLow + 1, OneDayHigh - 1, OneDayHigh,
     HalfDayLow - 1, HalfDayLow, HalfDayHigh, HalfDayHigh + 1,
     NearEarthLimit, NearEarthLimit + 1, 279252680, 279252681,
     0, -SIDEREAL_SPEED}

EccentricityGrid == {-1, 0, HalfDayMinEcc - 1, HalfDayMinEcc, 990000, EccOne - 1, EccOne}

NewInputs == {Input(n0, e0, 1000, 0, Quiet) : n0 \in MeanMotionGrid, e0 \in EccentricityGrid}

\* the arguments of Orbit::from_kozai_elements
KozaiInput(n0, e0, i0) ==
    [inclination |-> i0, right_ascension |-> 2000, eccentricity |-> e0,
     argument_of_perigee |-> 500, mean_anomaly |-> 1000, kozai_mean_motion |-> n0]

\* Kozai mean motions of no orbit, of the two resonant periods and of two low
\* orbits; eccentricities inside and outside ]-1, 1[; an equatorial, an
\* inclined and a polar orbit
KozaiInputs ==
    {KozaiInput(n0, e0, i0) :
         n0 \in {-SIDEREAL_SPEED, 0, SIDEREAL_SPEED, 2 * SIDEREAL_SPEED,
                 2 * NearEarthLimit, 600000000},
         e0 \in {-EccOne, 0, 100000, 700000, 992000, EccOne, 1500000},
         i0 \in {0, 1000, 1571}}

\* a 24 h orbit, a 12 h orbit (resonant when e0 >= 0.5), one between the two
\* windows and a near-earth one
Synchronous == SIDEREAL_SPEED

Molniya == 2 * SIDEREAL_SPEED

Between == (OneDayHigh + HalfDayLow) \div 2

Low == 2 * NearEarthLimit

\* an orbit in the equatorial plane whose inclination is not perturbed and
\* whose eccentricity grows from 0.99
Equatorial ==
    [Input(Between, 990000, 0, 0, Growing) EXCEPT !.solar_perturbations.ki = 0]

\* a near-earth orbit with e = 0.999 and the perigee a quarter turn from the
\* node, whose inclination of 5 mrad makes axn^2 + ayn^2 exactly 1
Grazing ==
    [Input(Low, 999000, 5, 0, Quiet) EXCEPT !.solar_perturbations = NoPerturbations,
                                           !.orbit_0.argument_of_perigee = 1570]

PropInputs ==
    {Input(Synchronous, 100000, 1000, 0, Quiet)}
    \cup {Input(n0, e0, 1000, 0, Quiet) : n0 \in {Molniya, Low}, e0 \in {100000, 700000}}
    \cup {Input(Between, 100000, i0, ra0, Quiet) : i0 \in {95, 196, 1000}, ra0 \in {0, 5}}
    \cup {Input(Synchronous, 100000, 95, 0, Quiet)}
    \cup {Input(Between, e0, 1000, 0, f) :
              e0 \in {100000, 990000}, f \in {Growing, Creeping, Decaying, Shrinking}}
    \cup {Equatorial, Grazing}
    \cup {Input(Between, 100000, 95, ra0, Quiet) : ra0 \in {3500, -3500}}

(***************************************************************************)
(* The caller.  inp holds the arguments of Constants::new, consts what it  *)
(* returned, slot the caller's Option<ResonanceState>, fed the target of   *)
(* the last call that returned with the state of slot, out the last call.  *)
(***************************************************************************)
NoCall == [tag |-> "NoCall"]

Fed(t) == [tag |-> "Fed", t |-> t]

Call(op, t, afspc, given, res) ==
    [op |-> op, t |-> t, afspc |-> afspc, given |-> given, res |-> res]

InitNew ==
    /\ inp \in NewInputs
    /\ consts = NotBuilt
    /\ slot = None
    /\ fed = NoCall
    /\ out = Call("none", 0, FALSE, None, None)
    /\ callers = <<>>

Init ==
    /\ inp \in PropInputs
    /\ consts = NotBuilt
    /\ slot = None
    /\ fed = NoCall
    /\ out = Call("none", 0, FALSE, None, None)
    /\ callers = <<>>

\* let constants = Constants::new(...)
New ==
    /\ consts = NotBuilt
    /\ consts' = ConstantsNew(inp)
    /\ out' = Call("new", 0, FALSE, None, [sidereal_calls |-> SiderealCalls(inp)])
    /\ UNCHANGED <<inp, slot, fed, callers>>

\* state = constants.initial_state()
MakeState ==
    /\ consts.tag = "Ok"
    /\ slot' = InitialState(consts)
    /\ fed' = NoCall
    /\ out' = Call("initial_state", 0, FALSE, None, slot')
    /\ UNCHANGED <<inp, consts, callers>>

\* constants.propagate_from_state(t, state.as_mut(), afspc)
CallFromState(t, afspc) ==
    /\ consts.tag = "Ok"
    /\ \E r \in {PropagateFromState(consts, t, slot, afspc)} :
           /\ slot' = r.state
           /\ fed' = IF r.tag = "Panic" \/ slot.tag = "None" THEN fed ELSE Fed(t)
           /\ out' = Call("propagate_from_state", t, afspc, slot, r)
    /\ UNCHANGED <<inp, consts, callers>>

\* constants.propagate_from_state(t, None, afspc) by a caller that holds a state
CallWithoutState(t, afspc) ==
    /\ consts.tag = "Ok"
    /\ slot.tag = "Some"
    /\ out' = Call("propagate_from_state", t, afspc, None,
                   PropagateFromState(consts, t, None, afspc))
    /\ UNCHANGED <<inp, consts, slot, fed, callers>>

\* the fresh ResonanceState of another, synchronous, satellite
ForeignState == ResonanceStateNew(SIDEREAL_SPEED, 0)

\* constants.propagate_from_state(t, Some(&mut other), afspc) by the caller of a
\* propagator that takes no state, with the state of another satellite
CallWithForeignState(t, afspc) ==
    /\ consts.tag = "Ok"
    /\ InitialState(consts).tag = "None"
    /\ out' = Call("propagate_from_state", t, afspc, ForeignState,
                   PropagateFromState(consts, t, ForeignState, afspc))
    /\ UNCHANGED <<inp, consts, slot, fed, callers>>

\* constants.propagate(t)
CallPropagate(t) ==
    /\ consts.tag = "Ok"
    /\ out' = Call("propagate", t, FALSE, InitialState(consts), Propagate(consts, t))
    /\ UNCHANGED <<inp, consts, slot, fed, callers>>

\* constants.propagate_afspc_compatibility_mode(t)
CallPropagateAfspc(t) ==
    /\ consts.tag = "Ok"
    /\ out' = Call("propagate", t, TRUE, InitialState(consts),
                   PropagateAfspcCompatibilityMode(consts, t))
    /\ UNCHANGED <<inp, consts, slot, fed, callers>>

Next ==
    \/ New
    \/ MakeState
    \/ \E t \in Targets, afspc \in BOOLEAN : CallFromState(t, afspc)
    \/ \E t \in Targets, afspc \in BOOLEAN : CallWithoutState(t, afspc)
    \/ \E t \in Targets, afspc \in BOOLEAN : CallWithForeignState(t, afspc)
    \/ \E t \in Targets : CallPropagate(t)
    \/ \E t \in Targets : CallPropagateAfspc(t)

Spec == Init /\ [][Next]_vars

\* let orbit = Orbit::from_kozai_elements(...)
FromKozai ==
    /\ out.op = "none"
    /\ out' = Call("from_kozai_elements", 0, FALSE, None, FromKozaiElements(inp))
    /\ UNCHANGED <<inp, consts, slot, fed, callers>>

InitKozai ==
    /\ inp \in KozaiInputs
    /\ consts = NotBuilt
    /\ slot = None
    /\ fed = NoCall
    /\ out = Call("none", 0, FALSE, None, None)
    /\ callers = <<>>

NextKozai == FromKozai

SpecKozai == InitKozai /\ [][NextKozai]_vars

(***************************************************************************)
(* The G polynomials of the half-day resonance (deep_space.rs 274-357).    *)
(* Coefficients are in 1e-3 (rounded where the source has more digits),    *)
(* e0 is in 1e-6 for the tests and in 1e-3 for the values.                 *)
(***************************************************************************)
\* x * em / 1000, dividing first where the product would not fit
Scaled(x, em) ==
    IF Abs(x) < 2 * 10^6 THEN TruncDiv(x * em, Milli) ELSE TruncDiv(x, Milli) * em

\* c[1] + c[2] e + c[3] e^2 + c[4] e^3
Poly(c, em) == c[1] + Scaled(c[2] + Scaled(c[3] + Scaled(c[4], em), em), em)

\* the coefficients of each polynomial (deep_space.rs 274-357)
GCoefficients ==
    [g211 |-> [low |-> <<3616, -13247, 16290, 0>>,
               high |-> <<-72099, 331819, -508738, 266724>>],
     g310 |-> [low |-> <<-19302, 117390, -228419, 156591>>,
               high |-> <<-346844, 1582851, -2415925, 1246113>>],
     g322 |-> [low |-> <<-18907, 109793, -214633, 146582>>,
               high |-> <<-342585, 1554908, -2366899, 1215972>>],
     g410 |-> [low |-> <<-41122, 242694, -471094, 313953>>,
               high |-> <<-1052797, 4758686, -7193992, 3651957>>],
     g422 |-> [low |-> <<-146407, 841880, -1629014, 1083435>>,
               high |-> <<-3581690, 16178110, -24462770, 12422520>>],
     g520 |-> [low |-> <<-532114, 3017977, -5740032, 3708276>>,
               mid |-> <<1464740, -4664750, 3763640, 0>>,
               high |-> <<-5149660, 29936920, -54087360, 31324560>>],
     g532 |-> [low |-> <<-853666, 4690250, -8624770, 5341400>>,
               high |-> <<-40023880, 170470890, -242699480, 115605820>>],
     g521 |-> [low |-> <<-822711, 4568617, -8491415, 5337524>>,
               high |-> <<-51752104, 218913950, -309468160, 146349420>>],
     g533 |-> [low |-> <<-919228, 4988610, -9064770, 5542210>>,
               high |-> <<-37995780, 161616520, -229838200, 109377940>>]]

\* the value of one G with the polynomial it was computed with
GValue(name, poly, e0) ==
    [poly |-> poly, v |-> Poly(GCoefficients[name][poly], TruncDiv(e0, Milli))]

\* a variant of the first test that sends e0 = 0.65 to the high polynomials
AtMost065Strict(e0) == e0 < 650000

\* orbit_0.eccentricity <= 0.65 (deep_space.rs 274 and 314)
AtMost065(e0) == e0 <= 650000

\* orbit_0.eccentricity < 0.715 (deep_space.rs 318)
Below0715(e0) == e0 < 715000

\* orbit_0.eccentricity < 0.7 (deep_space.rs 333)
Below07(e0) == e0 < 700000

\* (g211, g310, g322, g410, g422) (deep_space.rs 274-309)
G2To4(e0) ==
    The({[name \in {"g211", "g310", "g322", "g410", "g422"} |-> GValue(name, poly, e0)] :
         poly \in {IF AtMost065(e0) THEN "low" ELSE "high"}})

\* g520 (deep_space.rs 314-326)
G520(e0) ==
    IF AtMost065(e0) THEN GValue("g520", "low", e0)
    ELSE IF Below0715(e0) THEN GValue("g520", "mid", e0)
    ELSE GValue("g520", "high", e0)

\* (g532, g521, g533) (deep_space.rs 333-357)
G5(e0) ==
    The({[name \in {"g532", "g521", "g533"} |-> GValue(name, poly, e0)] :
         poly \in {IF Below07(e0) THEN "low" ELSE "high"}})

\* the nine G values of the half-day resonance
HalfDayG(e0) == G2To4(e0) @@ [g520 |-> G520(e0)] @@ G5(e0)

\* eccentricities in [0, 1): every hundredth and the neighbours of the three
\* boundaries
GInputs ==
    {[e0 |-> e] : e \in {k * 10000 : k \in 0..99}
                        \cup {649999, 650001, 699999, 700001, 714999, 715000, 715001}}

\* the G values Constants::new computes for a half-day resonance
ComputeG ==
    /\ out.op = "none"
    /\ out' = Call("half_day_g", 0, FALSE, None, HalfDayG(inp.e0))
    /\ UNCHANGED <<inp, consts, slot, fed, callers>>

InitG ==
    /\ inp \in GInputs
    /\ consts = NotBuilt
    /\ slot = None
    /\ fed = NoCall
    /\ out = Call("none", 0, FALSE, None, None)
    /\ callers = <<>>

NextG == ComputeG

SpecG == InitG /\ [][NextG]_vars

(***************************************************************************)
(* p4 of Constants::new (lib.rs 103-123).  The perigee height is in km; it *)
(* is aE (a0 (1 - e0) - 1), which is above -aE for a0 > 0, +inf when the   *)
(* mean motion is zero and NaN when it is negative (lib.rs 98).            *)
(***************************************************************************)
\* x < c for an f64 x and a finite c: false for NaN
Lt(x, c) == x.nonfinite = "-inf" \/ (x.nonfinite = "no" /\ x.v < c)

\* a variant of p4 whose upper segment starts at 150
P4Early(perigee) ==
    IF Lt(perigee, 98) THEN 20
    ELSE IF Lt(perigee, 150) THEN perigee.v - 78
    ELSE 78

\* p4 (lib.rs 112-118)
P4(perigee) ==
    IF Lt(perigee, 98) THEN 20
    ELSE IF Lt(perigee, 156) THEN perigee.v - 78
    ELSE 78

PerigeeInputs ==
    {[perigee |-> Finite(h)] : h \in (60..200) \cup {-6000, -1, 0, 1000, 35786}}
    \cup {[perigee |-> NonFinite("inf")], [perigee |-> NonFinite("NaN")]}

\* the choice of p4 in Constants::new
ChooseP4 ==
    /\ out.op = "none"
    /\ out' = Call("p4", 0, FALSE, None, P4(inp.perigee))
    /\ UNCHANGED <<inp, consts, slot, fed, callers>>

InitP4 ==
    /\ inp \in PerigeeInputs
    /\ consts = NotBuilt
    /\ slot = None
    /\ fed = NoCall
    /\ out = Call("none", 0, FALSE, None, None)
    /\ callers = <<>>

NextP4 == ChooseP4

SpecP4 == InitP4 /\ [][NextP4]_vars

(***************************************************************************)
(* ResonanceState::integrate pass by pass, for targets that may be NaN.    *)
(* inp holds the arguments of Constants::new, the target and the target    *)
(* whose call left the state the caller holds; out.res holds the position  *)
(* in integrate (pc), the state and the number of passes that advanced it. *)
(* A run that does not return is followed for MaxPasses passes.            *)
(***************************************************************************)
MaxPasses == 5

\* the arguments of integrate in a call of propagate_from_state to target
\* (deep_space.rs 640-649); p21 and p22 are NaN when the target is
IntegrateArgs(k, target) ==
    [argument_of_perigee_0 |-> k.orbit_0.argument_of_perigee,
     lambda_dot_0 |-> k.method.resonant.lambda_dot_0,
     resonance |-> k.method.resonant.resonance,
     sidereal_time_0 |-> k.method.resonant.sidereal_time_0,
     t |-> IF target.nonfinite = "no" THEN target.v ELSE target,
     p21 |-> IF target.nonfinite = "no" THEN P21(k, target.v) ELSE NonFinite("NaN"),
     p22 |-> IF target.nonfinite = "no" THEN P22(k, target.v) ELSE NonFinite("NaN")]

LoopTargets ==
    {Finite(k * HalfStep) : k \in -MaxK..MaxK} \cup {NaNTarget(TRUE), NaNTarget(FALSE)}

LoopInputs ==
    {[input |-> i, target |-> t, earlier |-> e] :
         i \in {Input(Synchronous, 100000, 1000, 0, Quiet),
                Input(Molniya, 700000, 1000, 0, Quiet)},
         t \in LoopTargets,
         e \in {-DELTA_T, 0, DELTA_T}}

\* the head of integrate: the guard (deep_space.rs 480-484)
EnterIntegrate ==
    /\ out.op = "none"
    /\ out' = Call("integrate", inp.target, FALSE, slot,
                   [pc |-> IF NonMonotonicF64(slot, inp.target) THEN "panicked" ELSE "loop",
                    state |-> slot, passes |-> 0])
    /\ UNCHANGED <<inp, consts, slot, fed, callers>>

\* one pass of the loop of integrate (deep_space.rs 492-603): it returns, or
\* advances the state
LoopPass ==
    /\ out.op = "integrate"
    /\ out.res.pc = "loop"
    /\ out.res.passes < MaxPasses
    /\ IF CrossedF64(slot, out.t)
       THEN /\ out' = [out EXCEPT !.res.pc = "returned"]
            /\ slot' = slot
       ELSE \E next \in {Advance(slot, Derivatives(slot, IntegrateArgs(consts, out.t)),
                                 DeltaTF64(out.t))} :
                /\ slot' = next
                /\ out' = [out EXCEPT !.res.state = next, !.res.passes = @ + 1]
    /\ UNCHANGED <<inp, consts, fed, callers>>

InitLoop ==
    /\ inp \in LoopInputs
    /\ consts = ConstantsNew(inp.input)
    /\ slot = Integrate(InitialState(consts),
                        IntegrateArgs(consts, Finite(inp.earlier))).state
    /\ fed = Fed(inp.earlier)
    /\ out = Call("none", 0, FALSE, None, None)
    /\ callers = <<>>

NextLoop ==
    \/ EnterIntegrate
    \/ LoopPass

SpecLoop == InitLoop /\ [][NextLoop]_vars

(***************************************************************************)
(* The two reductions of p21 in the low-inclination argument of perigee.   *)
(***************************************************************************)
\* values of p21 in mrad either side of zero; MaxTurns whole turns are among them
MaxTurns == 3

RemInputs ==
    {[p21 |-> 349 * k] : k \in -50..50}
    \cup {[p21 |-> TwoPi * k] : k \in -MaxTurns..MaxTurns}
    \cup {[p21 |-> TwoPi * k + d] : k \in -MaxTurns..MaxTurns, d \in {-1, 1}}

\* p21 reduced as in AFSPC compatibility mode and as otherwise
ReduceBothWays ==
    /\ out.op = "none"
    /\ out' = Call("reduce", 0, FALSE, None,
                   [afspc |-> PerigeeReduction(inp.p21, TRUE),
                    plain |-> PerigeeReduction(inp.p21, FALSE)])
    /\ UNCHANGED <<inp, consts, slot, fed, callers>>

InitRem ==
    /\ inp \in RemInputs
    /\ consts = NotBuilt
    /\ slot = None
    /\ fed = NoCall
    /\ out = Call("none", 0, FALSE, None, None)
    /\ callers = <<>>

NextRem == ReduceBothWays

SpecRem == InitRem /\ [][NextRem]_vars

(***************************************************************************)
(* Long runs on one ResonanceState: targets far enough from the epoch for  *)
(* a cursor that has left zero to move again.                              *)
(***************************************************************************)
FarTargets == {k * HalfStep : k \in -MaxFar..MaxFar}

\* a synchronous orbit with e0 = 0.99 whose lunar eccentricity perturbation
\* peaks 720 min after the epoch, where it takes the eccentricity above 1
Brushing ==
    [Input(Synchronous, 990000, 300, 0, Quiet)
         EXCEPT !.lunar_perturbations = [NoPerturbations EXCEPT !.ke = 10001,
                                                                !.phase_0 = 1458],
                !.orbit_0.argument_of_perigee = 0]

FarInputs ==
    {Input(Synchronous, 100000, 1000, 0, Quiet), Input(Molniya, 700000, 1000, 0, Quiet),
     Brushing}

InitFar ==
    /\ inp \in FarInputs
    /\ consts = NotBuilt
    /\ slot = None
    /\ fed = NoCall
    /\ out = Call("none", 0, FALSE, None, None)
    /\ callers = <<>>

NextFar ==
    \/ New
    \/ MakeState
    \/ \E t \in FarTargets : CallFromState(t, FALSE)

SpecFar == InitFar /\ [][NextFar]_vars

\* the values the Kepler loop starts from: p35 in mrad (a remainder modulo
\* 2 pi, lib.rs 364), axn and ayn in 1e-3 (lib.rs 358-361); (0, 1000) and
\* (600, 800) are vectors of length one
KeplerInputs ==
    [p35 : {-2000, 0, 927, 1571, 3000, 6000},
     axn : {-600, 0, 300, 600, 900},
     ayn : {-2000, -800, 0, 500, 800, 1000, 3000}]

\* the Kepler loop of propagate_from_state, from the initial guess p35
RunKepler ==
    /\ out.op = "none"
    /\ out' = Call("kepler", 0, FALSE, None,
                   Kepler(inp.p35, inp.axn, inp.ayn, inp.p35, KeplerPasses))
    /\ UNCHANGED <<inp, consts, slot, fed, callers>>

InitKepler ==
    /\ inp \in KeplerInputs
    /\ consts = NotBuilt
    /\ slot = None
    /\ fed = NoCall
    /\ out = Call("none", 0, FALSE, None, None)
    /\ callers = <<>>

NextKepler == RunKepler

SpecKepler == InitKepler /\ [][NextKepler]_vars

(***************************************************************************)
(* Several callers of one Constants.  Each caller owns the ResonanceState  *)
(* it got from initial_state(); callers[c] holds that state, the targets   *)
(* the caller has propagated to so far and what its last call returned.    *)
(* propagate_from_state borrows the Constants immutably (&self) and the    *)
(* state exclusively (&mut), so two calls share nothing they write and a   *)
(* call is one step.                                                       *)
(***************************************************************************)
Callers == {1, 2}

\* a backward step, half a step and a step and a half
SharedTargets == {-DELTA_T, HalfStep, DELTA_T + HalfStep}

\* a 24 h and a 12 h resonant orbit, and one outside both windows
SharedInputs ==
    {Input(Synchronous, 100000, 1000, 0, Quiet), Input(Molniya, 700000, 1000, 0, Quiet),
     Input(Between, 100000, 1000, 0, Quiet)}

\* a variant of the state a caller passes: the state of caller 1, shared by all
StateOfFirst(cs, c) == cs[1].state

\* state.as_mut() of caller c
StateOf(cs, c) == cs[c].state

\* caller c: constants.propagate_from_state(t, state.as_mut(), false)
SharedCall(c, t) ==
    /\ Len(callers[c].hist) < MaxCalls
    /\ \E r \in {PropagateFromState(consts, t, StateOf(callers, c), FALSE)} :
           callers' = [callers EXCEPT ![c] = [state |-> r.state,
                                              hist |-> Append(callers[c].hist, t),
                                              out |-> r]]
    /\ UNCHANGED <<inp, consts, slot, fed, out>>

InitShared ==
    /\ inp \in SharedInputs
    /\ consts = ConstantsNew(inp)
    /\ slot = None
    /\ fed = NoCall
    /\ out = Call("none", 0, FALSE, None, None)
    /\ callers = [c \in Callers |-> [state |-> InitialState(consts), hist |-> <<>>,
                                      out |-> NoCall]]

NextShared == \E c \in Callers, t \in SharedTargets : SharedCall(c, t)

SpecShared == InitShared /\ [][NextShared]_vars

NextNew == New

SpecNew == InitNew /\ [][NextNew]_vars

(***************************************************************************)
(* Properties.  out is the last call: its target, its flag, the state it   *)
(* was given and what it returned, with the state it left behind.          *)
(***************************************************************************)
\* the last call was propagate_from_state on the caller's ResonanceState: a
\* resonant propagator was given a state, and called integrate on it
OnState ==
    /\ out.op = "propagate_from_state"
    /\ out.given.tag = "Some"
    /\ consts.method.tag = "DeepSpace"
    /\ consts.method.resonant.tag = "Yes"

\* the last call was a propagation
Propagated == out.op \in {"propagate_from_state", "propagate"}

\* t continues a sequence of one sign and non-decreasing magnitude whose last
\* target is `last`
MonotoneAfter(last, t) ==
    last.tag = "NoCall" \/ (last.t * t >= 0 /\ Abs(t) >= Abs(last.t))

\* t reverses the sign of t1 or is smaller in magnitude
Backwards(t1, t) == t1 * t < 0 \/ Abs(t) < Abs(t1)

\* this step is propagate_from_state on the caller's ResonanceState
StepOnState ==
    out'.op = "propagate_from_state" /\ slot.tag = "Some" /\ out'.given = slot

\* the cursor a call to target t leaves: the last multiple of DELTA_T at or
\* before t, counted from the epoch
CursorOf(t) == TruncDiv(t, DELTA_T) * DELTA_T

\* C1: a target that continues a one-signed sequence of non-decreasing
\* magnitude fed through one ResonanceState gets the result, and leaves the
\* state, that the same target gets from a fresh initial_state().
C1_PathIndependence ==
    [][(StepOnState /\ MonotoneAfter(fed, out'.t))
       => /\ out'.res = PropagateFromState(consts, out'.t, InitialState(consts), out'.afspc)
          /\ slot' = out'.res.state]_vars

\* a state that was stepped to 720 by earlier calls answers a later target as
\* a fresh state does
C1_Witness ==
    /\ OnState
    /\ out.given.t = DELTA_T
    /\ out.t = DELTA_T + HalfStep
    /\ out.res.tag = "Ok"
    /\ out.res = PropagateFromState(consts, out.t, InitialState(consts), out.afspc)

\* C2: integrate panics exactly when the cursor t_i is non-zero and the target
\* has the other sign, or when |t| < |t_i|; a panic leaves the state as it was.
C2_IntegrateGuard ==
    OnState =>
        LET ti == out.given.t
            t == out.t
            rejected == (ti # 0 /\ ((ti > 0 /\ t < 0) \/ (ti < 0 /\ t > 0)))
                        \/ Abs(t) < Abs(ti)
        IN  /\ (out.res.tag = "Panic") <=> rejected
            /\ out.res.tag = "Panic"
               => /\ out.res.msg = "the resonance integration state must be manually reset if the target times are non-monotonic"
                  /\ out.res.state = out.given
                  /\ slot = out.given

\* a target of the same magnitude and the other sign is rejected
C2_Witness ==
    /\ OnState
    /\ out.given.t = DELTA_T
    /\ out.t = -DELTA_T
    /\ out.res.tag = "Panic"
    /\ slot = out.given

\* C3 (as amended): after a call with target t1 that returned, a call with
\* target t2 on the same state panics exactly when the cursor 720 trunc(t1 / 720)
\* is non-zero with the sign opposite to t2, or |t2| is below the cursor's
\* magnitude.
C3_GuardAgainstCursor ==
    [][(StepOnState /\ fed.tag = "Fed")
       => LET c == CursorOf(fed.t)
              t2 == out'.t
          IN  (out'.res.tag = "Panic") <=> (c * t2 < 0 \/ Abs(t2) < Abs(c))]_vars

\* 720 then 360 on one state: the second call panics
C3_Witness ==
    /\ OnState
    /\ fed = Fed(DELTA_T)
    /\ out.t = HalfStep
    /\ out.res.tag = "Panic"

\* C3 as stated: every second target that reverses the sign of the first or is
\* smaller in magnitude makes the second call panic.
C3_AsStated ==
    [][(StepOnState /\ fed.tag = "Fed" /\ Backwards(fed.t, out'.t))
       => out'.res.tag = "Panic"]_vars

\* C4 as stated: the method is NearEarth iff n0'' > 2 pi / 225
\* (0.02792526803... rad/min; on the 1e-10 grid, n0'' > 279252680).
C4_DispatchAt225 ==
    consts.tag = "Ok"
        => ((consts.method.tag = "NearEarth") <=> (inp.orbit_0.mean_motion > 279252680))

\* C5: a deep-space orbit is Yes/OneDay iff OneDayLow < n0'' < OneDayHigh,
\* Yes/HalfDay iff HalfDayLow <= n0'' <= HalfDayHigh and e0 >= 0.5, and No{a0}
\* otherwise; the two windows exclude each other.
C5_ResonanceClasses ==
    (consts.tag = "Ok" /\ consts.method.tag = "DeepSpace") =>
        LET n == inp.orbit_0.mean_motion
            e == inp.orbit_0.eccentricity
            r == consts.method.resonant
            oneDay == OneDayLow < n /\ n < OneDayHigh
            halfDay == HalfDayLow <= n /\ n <= HalfDayHigh /\ e >= HalfDayMinEcc
        IN  /\ ~(oneDay /\ halfDay)
            /\ r.tag \in {"Yes", "No"}
            /\ (r.tag = "Yes" /\ r.resonance.tag = "OneDay") <=> oneDay
            /\ (r.tag = "Yes" /\ r.resonance.tag = "HalfDay") <=> halfDay
            /\ (r.tag = "No") <=> ~(oneDay \/ halfDay)
            /\ r.tag = "No" => DOMAIN r = {"tag", "a0"}

\* the upper end of the 12 h window with e0 = 0.5
C5_Witness ==
    /\ consts.tag = "Ok"
    /\ consts.method.tag = "DeepSpace"
    /\ inp.orbit_0.mean_motion = HalfDayHigh
    /\ inp.orbit_0.eccentricity = HalfDayMinEcc
    /\ consts.method.resonant.tag = "Yes"
    /\ consts.method.resonant.resonance.tag = "HalfDay"

\* C6: initial_state returns Some iff the method is DeepSpace with
\* Resonant::Yes, and the state is then (0, n0'', lambda_0), whatever happened
\* to the states returned before.
C6_InitialState ==
    out.op = "initial_state" =>
        LET resonant == consts.method.tag = "DeepSpace"
                        /\ consts.method.resonant.tag = "Yes"
        IN  /\ out.res.tag \in {"Some", "None"}
            /\ (out.res.tag = "Some") <=> resonant
            /\ resonant => out.res = [tag |-> "Some", t |-> 0,
                                      mean_motion |-> inp.orbit_0.mean_motion,
                                      lambda |-> consts.method.resonant.lambda_0]
            /\ slot = out.res

\* a resonant propagator hands out (0, n0'', lambda_0) with lambda_0 # 0
C6_Witness ==
    /\ out.op = "initial_state"
    /\ out.res.tag = "Some"
    /\ out.res.t = 0
    /\ out.res.lambda # 0
    /\ out.res.lambda = consts.method.resonant.lambda_0

\* C7: a deep-space propagation that gets past the resonance step fails with
\* "diverging eccentricity" iff p29 >= 1 or p29 < -0.001; otherwise it fails
\* with "diverging perturbed eccentricity" iff max(p29, 1e-6) plus the
\* lunisolar perturbations is < 0 or > 1; an eccentricity that is returned is
\* that sum and lies in [0, 1].
C7_EccentricityGuards ==
    (Propagated /\ consts.method.tag = "DeepSpace" /\ out.res.tag # "Panic") =>
        LET p29 == P29(consts, out.t)
            e == PerturbedEccentricity(consts, out.t, p29)
            first == p29 >= EccOne \/ p29 < EccLowest
            second == ~first /\ (e < 0 \/ e > EccOne)
        IN  /\ (out.res.tag = "Err" /\ out.res.msg = "diverging eccentricity") <=> first
            /\ (out.res.tag = "Err" /\ out.res.msg = "diverging perturbed eccentricity")
               <=> second
            /\ (out.res.tag = "Ok" /\ ~out.res.prediction.nan)
               => /\ out.res.prediction.orbit.eccentricity = e
                  /\ 0 <= e /\ e <= EccOne

\* a perturbed eccentricity of exactly 1 passes both guards
C7_Witness ==
    /\ Propagated
    /\ consts.method.tag = "DeepSpace"
    /\ out.res.tag \in {"Ok", "Err"}
    /\ PerturbedEccentricity(consts, out.t, P29(consts, out.t)) = EccOne
    /\ out.res.tag = "Err" => out.res.msg = "negative semi-latus rectum"

\* C8 (as amended): for a deep-space orbit with e0 = 0.99, propagate(0) never
\* returns "diverging eccentricity" (p29 = e0 < 1 at t = 0); it returns
\* "diverging perturbed eccentricity" iff 0.99 plus the lunisolar perturbations
\* at the epoch is outside [0, 1].
C8_NoDivergenceAtEpoch ==
    (out.op = "propagate" /\ ~out.afspc /\ out.t = 0
     /\ consts.method.tag = "DeepSpace" /\ inp.orbit_0.eccentricity = 990000) =>
        LET e == PerturbedEccentricity(consts, 0, 990000)
        IN  /\ ~(out.res.tag = "Err" /\ out.res.msg = "diverging eccentricity")
            /\ (out.res.tag = "Err" /\ out.res.msg = "diverging perturbed eccentricity")
               <=> (e < 0 \/ e > EccOne)

\* propagate(0) of an orbit with e0 = 0.99 returns a prediction
C8_Witness ==
    /\ out.op = "propagate"
    /\ ~out.afspc
    /\ out.t = 0
    /\ consts.method.tag = "DeepSpace"
    /\ inp.orbit_0.eccentricity = 990000
    /\ out.res.tag = "Ok"

\* C8 as stated: propagate(0) of an orbit with e0 = 0.99 returns the error
\* "diverging eccentricity".
C8_AsStated ==
    (out.op = "propagate" /\ ~out.afspc /\ out.t = 0 /\ inp.orbit_0.eccentricity = 990000)
        => (out.res.tag = "Err" /\ out.res.msg = "diverging eccentricity")

\* C9 (as amended): for t >= 0 with p21 = O0 + O_dot t + k0 t^2 >= 0, a call
\* from a fresh state returns the same result under both values of the flag.
C9_FlagInvariance ==
    (Propagated /\ out.given = InitialState(consts) /\ out.t >= 0
     /\ P21(consts, out.t) >= 0)
        => PropagateFromState(consts, out.t, out.given, ~out.afspc) = out.res

\* a low-inclination deep-space call at t > 0 with p21 >= 0, in compatibility mode
C9_Witness ==
    /\ Propagated
    /\ out.given = InitialState(consts)
    /\ out.t > 0
    /\ out.afspc
    /\ consts.method.tag = "DeepSpace"
    /\ P21(consts, out.t) >= 0
    /\ PerturbedInclination(consts, out.t) < LowInclination
    /\ out.res.tag = "Ok"

\* C9 as stated: for every t >= 0 a call from a fresh state returns the same
\* result under both values of the flag.
C9_AsStated ==
    (Propagated /\ out.given = InitialState(consts) /\ out.t >= 0)
        => PropagateFromState(consts, out.t, out.given, ~out.afspc) = out.res

\* C10: for a NearEarth method, and for a DeepSpace method whose perturbed
\* inclination is >= 0.2 rad, propagate_from_state returns the same result and
\* leaves the same state under both values of the flag.
C10_FlagFrame ==
    (Propagated
     /\ (consts.method.tag = "NearEarth"
         \/ PerturbedInclination(consts, out.t) >= LowInclination))
        => PropagateFromState(consts, out.t, out.given, ~out.afspc) = out.res

\* a perturbed inclination of exactly 0.2 rad with p21 < 0, where the two
\* remainders differ
C10_Witness ==
    /\ Propagated
    /\ consts.method.tag = "DeepSpace"
    /\ PerturbedInclination(consts, out.t) = LowInclination
    /\ P21(consts, out.t) < 0
    /\ out.afspc
    /\ out.res.tag = "Ok"

\* C11: Constants::new returns the error "the eccentricity must be in the
\* range [0, 1[" exactly when the eccentricity of orbit_0 is negative or at
\* least 1, whatever the mean motion is (the test comes before any use of
\* it); it returns no other error, and Ok for every eccentricity in [0, 1).
C11_EccentricityRange ==
    consts.tag # "NotBuilt" =>
        LET e == inp.orbit_0.eccentricity
            r == ConstantsNew(inp)
        IN  /\ consts = r
            /\ (r.tag = "Err") <=> (e < 0 \/ e >= EccOne)
            /\ r.tag = "Err" => r.msg = "the eccentricity must be in the range [0, 1["
            /\ (0 <= e /\ e < EccOne) => r.tag = "Ok"
            /\ r.tag \in {"Ok", "Err"}

\* Constants::new refused the eccentricity 1 of an orbit whose mean motion is
\* not positive
C11_Witness ==
    /\ consts.tag = "Err"
    /\ inp.orbit_0.eccentricity = EccOne
    /\ inp.orbit_0.mean_motion <= 0

\* C12: Orbit::from_kozai_elements fails with "the Kozai mean motion must be
\* positive" exactly when the input mean motion is <= 0; otherwise it fails
\* with "the Brouwer mean motion must be positive" exactly when the derived
\* n0'' = n0 / (1 + d0) is <= 0; otherwise it returns an Orbit with the five
\* other inputs unchanged and mean_motion = n0''.  The Orbit it returns has a
\* positive mean motion when |e0| < 1; when |e0| >= 1 the derived mean motion
\* is NaN, which is not <= 0, and the Orbit is returned with it.
C12_FromKozaiElements ==
    out.op = "from_kozai_elements" =>
        IF inp.kozai_mean_motion <= 0
        THEN out.res = Err("the Kozai mean motion must be positive")
        ELSE LET n2 == BrouwerMeanMotion(inp)
                 e0 == inp.eccentricity
             IN  IF n2.nonfinite = "no" /\ n2.v <= 0
                 THEN out.res = Err("the Brouwer mean motion must be positive")
                 ELSE /\ out.res.tag = "Ok"
                      /\ out.res.orbit.inclination = inp.inclination
                      /\ out.res.orbit.right_ascension = inp.right_ascension
                      /\ out.res.orbit.eccentricity = e0
                      /\ out.res.orbit.argument_of_perigee = inp.argument_of_perigee
                      /\ out.res.orbit.mean_anomaly = inp.mean_anomaly
                      /\ out.res.orbit.mean_motion = n2
                      /\ (n2.nonfinite = "NaN") <=> (e0 <= -EccOne \/ e0 >= EccOne)
                      /\ n2.nonfinite = "no" => n2.v > 0

\* from_kozai_elements returned an Orbit whose mean motion is NaN, for a
\* positive Kozai mean motion and the eccentricity 1.5
C12_Witness ==
    /\ out.op = "from_kozai_elements"
    /\ out.res.tag = "Ok"
    /\ inp.kozai_mean_motion > 0
    /\ inp.eccentricity > EccOne
    /\ out.res.orbit.mean_motion.nonfinite = "NaN"

\* C12 as stated: every Orbit that from_kozai_elements returns has
\* mean_motion > 0
C12_AsStated ==
    (out.op = "from_kozai_elements" /\ out.res.tag = "Ok") =>
        LET n2 == out.res.orbit.mean_motion
        IN  n2.nonfinite = "inf" \/ (n2.nonfinite = "no" /\ n2.v > 0)

\* C13: every Constants that Constants::new returns as Ok was built from an
\* orbit with e0 in [0, 1).  Constants::new does not look at the sign of the
\* mean motion: an orbit with e0 in [0, 1) whose mean_motion is zero or
\* negative is accepted, as a deep-space orbit outside both resonance windows
\* whose a0 is infinite (zero) or NaN (negative).
C13_AcceptedOrbits ==
    consts.tag # "NotBuilt" =>
        LET e0 == inp.orbit_0.eccentricity
            n0 == inp.orbit_0.mean_motion
        IN  /\ consts.tag = "Ok" => (0 <= e0 /\ e0 < EccOne /\ consts.orbit_0 = inp.orbit_0)
            /\ (0 <= e0 /\ e0 < EccOne /\ n0 <= 0) =>
                   /\ consts.tag = "Ok"
                   /\ consts.method.tag = "DeepSpace"
                   /\ consts.method.resonant.tag = "No"
                   /\ consts.method.resonant.a0.nonfinite = IF n0 = 0 THEN "inf" ELSE "NaN"

\* Constants::new returned Ok for an orbit whose mean motion is negative
C13_Witness ==
    /\ consts.tag = "Ok"
    /\ inp.orbit_0.mean_motion < 0
    /\ consts.method.resonant.a0.nonfinite = "NaN"

\* C13 as stated: an orbit whose mean_motion is zero or negative is never
\* accepted by Constants::new
C13_AsStated ==
    consts.tag = "Ok" =>
        /\ 0 <= inp.orbit_0.eccentricity /\ inp.orbit_0.eccentricity < EccOne
        /\ inp.orbit_0.mean_motion > 0

\* C14: propagate_from_state panics, returning neither Ok nor Err and leaving
\* the state it was given untouched, when it is given a state and the method
\* is NearEarth, when it is given a state and the method is DeepSpace with
\* Resonant::No, and when it is given None and the method is DeepSpace with
\* Resonant::Yes; given a matching state or None it panics for none of these
\* three reasons.
C14_VariantMismatch ==
    out.op = "propagate_from_state" =>
        LET some == out.given.tag = "Some"
            near == consts.method.tag = "NearEarth"
            yes == ~near /\ consts.method.resonant.tag = "Yes"
            mismatch == {"state must be None with a near-earth propagator",
                         "state must be None with a non-resonant deep-space propagator",
                         "state cannot be None with a deep space propagator"}
        IN  /\ (some /\ near) =>
                   out.res = Panic("state must be None with a near-earth propagator")
                             @@ [state |-> out.given]
            /\ (some /\ ~near /\ ~yes) =>
                   out.res = Panic("state must be None with a non-resonant deep-space propagator")
                             @@ [state |-> out.given]
            /\ (~some /\ yes) =>
                   out.res = Panic("state cannot be None with a deep space propagator")
                             @@ [state |-> out.given]
            /\ (some <=> yes) => ~(out.res.tag = "Panic" /\ out.res.msg \in mismatch)

\* a near-earth propagator was handed a state and panicked
C14_Witness ==
    /\ out.op = "propagate_from_state"
    /\ out.given.tag = "Some"
    /\ consts.method.tag = "NearEarth"
    /\ out.res.tag = "Panic"

RECURSIVE Alone(_, _, _)
\* what a caller that feeds the targets of hist, in order, to `state` holds at
\* the end: the state, and what the last call returned
Alone(k, state, hist) ==
    IF hist = <<>> THEN [state |-> state, out |-> NoCall]
    ELSE The({IF Len(hist) = 1 THEN [state |-> r.state, out |-> r]
              ELSE Alone(k, r.state, Tail(hist)) :
                  r \in {PropagateFromState(k, Head(hist), state, FALSE)}})

\* C15: when several callers each own a ResonanceState and propagate the same
\* Constants, then after any interleaving of their calls every caller holds
\* the state, and got from its last call the result, that its own sequence of
\* targets gives when run alone from initial_state(); the Constants are
\* still the ones Constants::new returned.
C15_NoInterference ==
    callers # <<>> =>
        /\ consts = ConstantsNew(inp)
        /\ \A c \in Callers :
               \E alone \in {Alone(consts, InitialState(consts), callers[c].hist)} :
                   /\ callers[c].state = alone.state
                   /\ callers[c].out = alone.out

\* the two callers of a resonant propagator have each made two calls, moved
\* their states to different cursors, and got different predictions
C15_Witness ==
    /\ callers # <<>>
    /\ Len(callers[1].hist) = 2
    /\ Len(callers[2].hist) = 2
    /\ callers[1].state.tag = "Some"
    /\ callers[1].state.t = DELTA_T
    /\ callers[2].state.t = -DELTA_T
    /\ callers[1].out.tag = "Ok"
    /\ callers[2].out.tag = "Ok"

\* C16: every call of propagate(t) (and of its compatibility-mode twin)
\* returns what propagate_from_state returns for t on a fresh initial_state(),
\* and leaves the Constants and the caller's own state as they were: its
\* output depends on the Constants and t alone, so two calls with the same t
\* return the same output whatever was called in between.
C16_Determinism ==
    [][out'.op = "propagate" =>
          /\ out'.given = InitialState(consts)
          /\ out'.res = PropagateFromState(consts, out'.t, InitialState(consts), out'.afspc)
          /\ UNCHANGED <<consts, slot, fed>>]_vars

\* propagate(360) returned a prediction while the caller's own state stood at
\* the cursor 720, where integrate refuses the target 360
C16_Witness ==
    /\ out.op = "propagate"
    /\ ~out.afspc
    /\ out.t = HalfStep
    /\ out.res.tag = "Ok"
    /\ slot.tag = "Some"
    /\ slot.t = DELTA_T
    /\ NonMonotonic(slot, out.t)

\* ceil(a / b) for a >= 0 and b > 0
CeilDiv(a, b) == (a + b - 1) \div b

\* what integrate returned in the last call
LastIntegrate ==
    Integrate(out.given,
              [argument_of_perigee_0 |-> consts.orbit_0.argument_of_perigee,
               lambda_dot_0 |-> consts.method.resonant.lambda_dot_0,
               resonance |-> consts.method.resonant.resonance,
               sidereal_time_0 |-> consts.method.resonant.sidereal_time_0,
               t |-> out.t, p21 |-> P21(consts, out.t), p22 |-> P22(consts, out.t)])

\* C17: for every target the guard accepts the loop of integrate returns, after
\* at most ceil(|t| / 720) passes that advance the state and one pass that
\* returns; from a fresh state it advances trunc(|t| / 720) times.
C17_IntegrateTerminates ==
    (OnState /\ ~NonMonotonic(out.given, out.t)) =>
        \E r \in {LastIntegrate} :
            /\ r.tag = "Done"
            /\ r.state = out.res.state
            /\ r.steps <= CeilDiv(Abs(out.t), DELTA_T)
            /\ out.given.t = 0 => r.steps = Abs(out.t) \div DELTA_T

\* from a fresh state the target 720 takes ceil(720 / 720) = 1 advancing pass
C17_Witness ==
    /\ OnState
    /\ out.given.t = 0
    /\ out.t = DELTA_T
    /\ LastIntegrate.tag = "Done"
    /\ LastIntegrate.steps = 1

RECURSIVE SumSeq(_)
SumSeq(q) == IF q = <<>> THEN 0 ELSE Head(q) + SumSeq(Tail(q))

\* C18: the Kepler iteration computes at most 10 corrections; a correction
\* that is zero (|delta| < 1e-12) ends the loop and is not applied, and no
\* correction before it is zero.  As long as no correction is a NaN, every
\* applied correction is its delta limited to [-0.95, 0.95], E + w is p35
\* plus the applied corrections and differs from p35 by at most 9.5.  When
\* both terms of a correction vanish the correction is 0/0: the loop then
\* runs all 10 passes and E + w ends as NaN.
C18_KeplerIteration ==
    out.op = "kepler" =>
        /\ out.res.computed <= KeplerPasses
        /\ Len(out.res.applied) = Len(out.res.deltas) \/ Len(out.res.applied) + 1 = Len(out.res.deltas)
        /\ \A i \in 1..Len(out.res.applied) :
              /\ out.res.deltas[i] # 0
              /\ out.res.applied[i] >= -950
              /\ out.res.applied[i] <= 950
              /\ out.res.deltas[i] \in -950..950 => out.res.applied[i] = out.res.deltas[i]
              /\ out.res.deltas[i] > 950 => out.res.applied[i] = 950
              /\ out.res.deltas[i] < -950 => out.res.applied[i] = -950
        /\ out.res.ew = inp.p35 + SumSeq(out.res.applied)
        /\ ~out.res.nan =>
              /\ Len(out.res.deltas) = out.res.computed
              /\ Len(out.res.applied) < out.res.computed =>
                    out.res.deltas[out.res.computed] = 0
              /\ Len(out.res.applied) = out.res.computed =>
                    out.res.computed = KeplerPasses
              /\ Abs(out.res.ew - inp.p35) <= 9500
        /\ out.res.nan =>
              /\ out.res.computed = KeplerPasses
              /\ Len(out.res.applied) = Len(out.res.deltas)
              /\ KeplerTerms(inp.p35, inp.axn, inp.ayn, out.res.ew).num = 0
              /\ KeplerTerms(inp.p35, inp.axn, inp.ayn, out.res.ew).den = 0

\* a run that stops early after a correction that was limited to 0.95
C18_Witness ==
    /\ out.op = "kepler"
    /\ ~out.res.nan
    /\ out.res.computed < KeplerPasses
    /\ \E i \in 1..Len(out.res.applied) :
          out.res.deltas[i] > 950 /\ out.res.applied[i] = 950

\* C18 as stated: every run of the Kepler iteration ends with E + w within
\* 9.5 of the initial guess p35
C18_AsStated ==
    out.op = "kepler" => ~out.res.nan /\ Abs(out.res.ew - inp.p35) <= 9500

\* a run that uses all 10 passes with finite corrections
C18_AllPasses ==
    out.op = "kepler" /\ ~out.res.nan /\ Len(out.res.applied) = KeplerPasses

\* the element step of the last call
LastElements == OrbitalElements(consts, out.t, out.given, out.afspc)

\* C19: propagate_from_state fails with "negative semi-latus rectum" if and
\* only if the element step succeeded and pl = a (1 - (axn^2 + ayn^2)) is
\* strictly negative; an error of the element step (either eccentricity
\* guard) is returned as it is, before pl is looked at.  Whenever a
\* Prediction is returned pl < 0 did not hold: pl >= 0 (pl = 0 is accepted)
\* or pl is NaN, which happens when the perturbed eccentricity is exactly 1
\* and sin I = 0.
C19_SemiLatusRectum ==
    (Propagated /\ out.res.tag # "Panic") =>
        /\ LastElements.tag = "Err" =>
              out.res.tag = "Err" /\ out.res.msg = LastElements.msg
              /\ out.res.msg # "negative semi-latus rectum"
        /\ LastElements.tag = "Ok" =>
              LET pl == SemiLatusRectum(LastElements.a, PerigeeVector(LastElements))
              IN  /\ (out.res.tag = "Err" /\ out.res.msg = "negative semi-latus rectum")
                     <=> (pl.nonfinite = "-inf" \/ (pl.nonfinite = "no" /\ pl.v < 0))
                  /\ out.res.tag = "Ok"
                     <=> (pl.nonfinite = "NaN" \/ (pl.nonfinite = "no" /\ pl.v >= 0))
                  /\ out.res.tag = "Ok" => out.res.prediction.nan = (pl.nonfinite = "NaN")
        /\ (out.res.tag = "Ok" /\ ~out.res.prediction.nan) =>
              /\ out.res.prediction.pl >= 0
              /\ out.res.prediction.pl =
                     out.res.prediction.a
                     * (10^6 - (out.res.prediction.axn * out.res.prediction.axn
                                + out.res.prediction.ayn * out.res.prediction.ayn))

\* a Prediction with pl = 0 was returned, after both eccentricity guards
\* passed
C19_Witness ==
    /\ Propagated
    /\ LastElements.tag = "Ok"
    /\ out.res.tag = "Ok"
    /\ ~out.res.prediction.nan
    /\ out.res.prediction.pl = 0

\* C19 as stated: whenever a Prediction is returned, pl >= 0 held
C19_AsStated ==
    (Propagated /\ out.res.tag = "Ok") =>
        /\ ~out.res.prediction.nan
        /\ out.res.prediction.pl >= 0

\* the call failed with "negative semi-latus rectum"
C19_Rejected ==
    /\ Propagated
    /\ out.res.tag = "Err"
    /\ out.res.msg = "negative semi-latus rectum"

\* C20: the cursor t_i of a ResonanceState that started at ResonanceState::new
\* is an integer multiple of 720.  A call to integrate moves it by a whole
\* number of steps of +720 (t > 0) or -720 (t <= 0), never back toward zero,
\* and not at all when the guard rejects the target.  When the call returns,
\* t_i is between 0 and t inclusive and |t - t_i| < 720: a target that is a
\* whole number of steps away is reached exactly, and no step goes beyond t.
C20_CursorInvariant ==
    /\ slot.tag = "Some" => slot.t % 720 = 0
    /\ OnState =>
          \E g \in {out.given.t}, n \in {out.res.state.t}, t \in {out.t} :
              /\ g % 720 = 0
              /\ n % 720 = 0
              /\ Abs(n) >= Abs(g)
              /\ out.res.tag = "Panic" => n = g
              /\ out.res.tag # "Panic" =>
                    /\ n = g + LastIntegrate.steps * (IF t > 0 THEN 720 ELSE -720)
                    /\ (0 <= n /\ n <= t) \/ (t <= n /\ n <= 0)
                    /\ Abs(t - n) < 720
                    /\ (t - g) % 720 = 0 => n = t

\* from a fresh state the target -720 is reached exactly, by one step of -720
C20_Exact ==
    /\ OnState
    /\ out.res.tag # "Panic"
    /\ out.given.t = 0
    /\ out.t = -DELTA_T
    /\ out.res.state.t = -DELTA_T

\* a call moved a cursor that was not at zero, and stopped short of its target
C20_Witness ==
    /\ OnState
    /\ out.res.tag # "Panic"
    /\ out.given.t # 0
    /\ out.res.state.t # out.given.t
    /\ out.res.state.t # out.t

\* lambda_dot, ni_dot and ni_ddot of the state the last call was given
GivenDerivatives ==
    Derivatives(out.given,
                [argument_of_perigee_0 |-> consts.orbit_0.argument_of_perigee,
                 lambda_dot_0 |-> consts.method.resonant.lambda_dot_0,
                 resonance |-> consts.method.resonant.resonance,
                 sidereal_time_0 |-> consts.method.resonant.sidereal_time_0,
                 t |-> out.t, p21 |-> P21(consts, out.t), p22 |-> P22(consts, out.t)])

\* C21: a call that takes one integrator step leaves n_i + n_dot dt
\* + n_ddot (720^2 / 2) and lambda_i + lambda_dot dt + n_dot (720^2 / 2) in the
\* state, with dt = +720 for a positive target and dt = -720 otherwise: the
\* first-order terms carry the sign of the step, the second-order terms are
\* added with +720^2 / 2 = 259200 in both directions.
C21_SignAwareStep ==
    (OnState /\ out.res.tag # "Panic" /\ LastIntegrate.steps = 1) =>
        \E dv \in {GivenDerivatives}, dt \in {IF out.t > 0 THEN 720 ELSE -720} :
            /\ out.res.state.t = out.given.t + dt
            /\ out.res.state.mean_motion =
                   out.given.mean_motion + dv.ni_dot * dt
                   + TruncDiv(dv.ni_ddot * 259200, 10^4)
            /\ out.res.state.lambda =
                   out.given.lambda + TruncDiv(TruncDiv(dv.lambda_dot, 10^4) * dt, Milli)
                   + TruncDiv(dv.ni_dot * 259200, 10^7)

\* one step of -720 whose second-order terms are not zero
C21_Witness ==
    /\ OnState
    /\ out.res.tag # "Panic"
    /\ out.t < 0
    /\ LastIntegrate.steps = 1
    /\ TruncDiv(GivenDerivatives.ni_ddot * 259200, 10^4) # 0
    /\ TruncDiv(GivenDerivatives.ni_dot * 259200, 10^7) # 0

\* C22: G211, G310, G322, G410 and G422 are the low-e polynomial iff
\* e0 <= 0.65 and the high-e polynomial otherwise; G520 is the low-e polynomial
\* iff e0 <= 0.65, the mid-e polynomial iff 0.65 < e0 < 0.715 and the high-e
\* polynomial iff e0 >= 0.715; G521, G532 and G533 are the low polynomial iff
\* e0 < 0.7 and the high polynomial iff e0 >= 0.7.  Each value is the value of
\* exactly the polynomial its segment names.
C22_Segmentation ==
    out.op = "half_day_g" =>
        /\ \A name \in {"g211", "g310", "g322", "g410", "g422"} :
              /\ out.res[name].poly \in {"low", "high"}
              /\ out.res[name].poly = "low" <=> inp.e0 <= 650000
              /\ out.res[name].poly = "high" <=> inp.e0 > 650000
        /\ out.res.g520.poly \in {"low", "mid", "high"}
        /\ out.res.g520.poly = "low" <=> inp.e0 <= 650000
        /\ out.res.g520.poly = "mid" <=> (650000 < inp.e0 /\ inp.e0 < 715000)
        /\ out.res.g520.poly = "high" <=> inp.e0 >= 715000
        /\ \A name \in {"g532", "g521", "g533"} :
              /\ out.res[name].poly \in {"low", "high"}
              /\ out.res[name].poly = "low" <=> inp.e0 < 700000
              /\ out.res[name].poly = "high" <=> inp.e0 >= 700000
        /\ \A name \in DOMAIN out.res :
              out.res[name].v = Poly(GCoefficients[name][out.res[name].poly],
                                     TruncDiv(inp.e0, Milli))

\* at e0 = 0.65 the low polynomials are used, G520 included, and their values
\* differ from those of the polynomials of the next segment
C22_Witness ==
    /\ out.op = "half_day_g"
    /\ inp.e0 = 650000
    /\ out.res.g211.poly = "low"
    /\ out.res.g520.poly = "low"
    /\ out.res.g211.v # Poly(GCoefficients.g211.high, 650)
    /\ out.res.g520.v # Poly(GCoefficients.g520.mid, 650)

\* G520 on its middle segment while G521 is already on its high polynomial
C22_MidSegment ==
    /\ out.op = "half_day_g"
    /\ out.res.g520.poly = "mid"
    /\ out.res.g521.poly = "high"

\* C23: in a deep-space element step that succeeds with a perturbed
\* inclination below 0.2 rad, the right ascension is p28 - 2 pi, p28 or
\* p28 + 2 pi, where p28 is the atan2 value in [-pi, pi], and it lies within
\* pi of p21 rem 2 pi; with an inclination of 0.2 rad or more it is
\* p21 + (ls5 + lp6) / sin I.
C23_NodeWrapping ==
    (Propagated /\ consts.method.tag = "DeepSpace" /\ out.res.tag # "Panic"
     /\ LastElements.tag = "Ok") =>
        \E inclination \in {PerturbedInclination(consts, out.t)},
           p21 \in {P21(consts, out.t)},
           l5 \in {SolarEffects(consts, out.t).l5 + LunarEffects(consts, out.t).l5},
           di \in {SolarEffects(consts, out.t).delta_inclination
                   + LunarEffects(consts, out.t).delta_inclination},
           ra \in {LastElements.orbit.right_ascension} :
            IF inclination < 200
            THEN \E p28 \in {P28(inclination, di, l5, p21)} :
                     /\ -PI <= p28 /\ p28 <= PI
                     /\ ra \in {p28 - TwoPi, p28, p28 + TwoPi}
                     /\ Abs(ra - Rem(p21, TwoPi)) <= PI
            ELSE ra = p21 + TruncDiv(l5 * Milli, Sin(inclination))

\* a low-inclination step whose right ascension is p28 + 2 pi
C23_Witness ==
    /\ Propagated
    /\ consts.method.tag = "DeepSpace"
    /\ LastElements.tag = "Ok"
    /\ PerturbedInclination(consts, out.t) < 200
    /\ LastElements.orbit.right_ascension > PI
    /\ Rem(P21(consts, out.t), TwoPi) > PI

\* a low-inclination step whose right ascension is p28 - 2 pi
C23_WrappedDown ==
    /\ Propagated
    /\ consts.method.tag = "DeepSpace"
    /\ LastElements.tag = "Ok"
    /\ PerturbedInclination(consts, out.t) < 200
    /\ LastElements.orbit.right_ascension < -PI

\* C24: the Euclidean remainder of p21 by 2 pi (AFSPC mode) and the truncated
\* remainder (otherwise) are the same value whenever p21 >= 0; they differ
\* only when p21 < 0, by exactly 2 pi, and they differ for every negative p21
\* that is not a multiple of 2 pi.  The truncated remainder has the sign of
\* p21, the Euclidean one is in [0, 2 pi), and both differ from p21 by a
\* whole number of turns.
C24_Reductions ==
    out.op = "reduce" =>
        /\ inp.p21 >= 0 => out.res.afspc = out.res.plain
        /\ out.res.afspc # out.res.plain =>
              inp.p21 < 0 /\ out.res.afspc - out.res.plain = 6283
        /\ (inp.p21 < 0 /\ inp.p21 % 6283 # 0) => out.res.afspc # out.res.plain
        /\ (inp.p21 < 0 /\ inp.p21 % 6283 = 0) => out.res.afspc = out.res.plain
        /\ out.res.afspc = inp.p21 % 6283
        /\ Abs(out.res.plain) < 6283
        /\ out.res.plain * inp.p21 >= 0
        /\ (inp.p21 - out.res.plain) % 6283 = 0

\* a negative p21 more than one turn from zero, whose reductions differ by 2 pi
C24_Witness ==
    /\ out.op = "reduce"
    /\ inp.p21 < -TwoPi
    /\ out.res.plain < 0
    /\ out.res.afspc = out.res.plain + TwoPi

\* a negative whole number of turns, on which both reductions give zero
C24_WholeTurns ==
    /\ out.op = "reduce"
    /\ inp.p21 < 0
    /\ out.res.afspc = 0
    /\ out.res.plain = 0

\* C25: p4 is 20 when perigee < 98, perigee - 78 when 98 <= perigee < 156
\* and 78 when perigee >= 156, which is perigee - 78 limited to [20, 78]; it
\* always lies in [20, 78] (for a perigee that is NaN too, where it is 78),
\* and two perigees one km apart never give values more than one apart.
C25_SBand ==
    out.op = "p4" =>
        /\ 20 <= out.res /\ out.res <= 78
        /\ inp.perigee.nonfinite = "no" =>
              /\ inp.perigee.v < 98 => out.res = 20
              /\ (98 <= inp.perigee.v /\ inp.perigee.v < 156) =>
                    out.res = inp.perigee.v - 78
              /\ inp.perigee.v >= 156 => out.res = 78
              /\ out.res = Max(20, IF inp.perigee.v - 78 > 78 THEN 78 ELSE inp.perigee.v - 78)
              /\ Abs(P4(Finite(inp.perigee.v + 1)) - out.res) <= 1
        /\ inp.perigee.nonfinite = "inf" => out.res = 78

\* a perigee of 155 km, just below the upper boundary, gets 77
C25_Witness ==
    /\ out.op = "p4"
    /\ inp.perigee = Finite(155)
    /\ out.res = 77

\* the perigee of an orbit with a negative mean motion is NaN and gets 78
C25_NaNPerigee ==
    /\ out.op = "p4"
    /\ inp.perigee.nonfinite = "NaN"
    /\ out.res = 78

\* C26: propagate(t) and propagate_afspc_compatibility_mode(t) on a Constants
\* that Constants::new returned give Ok or Err for every target, positive,
\* negative or zero, and never panic: the state they pass is None for a
\* near-earth or non-resonant propagator and a ResonanceState with t_i = 0 for
\* a resonant one, which the guard of integrate accepts for every target.
C26_ConvenienceCalls ==
    out.op = "propagate" =>
        /\ out.res.tag \in {"Ok", "Err"}
        /\ out.given.tag = "Some" <=>
              (consts.method.tag = "DeepSpace" /\ consts.method.resonant.tag = "Yes")
        /\ out.given.tag = "Some" =>
              /\ out.given.t = 0
              /\ ~((out.given.t # 0 /\ (out.given.t >= 0) # (out.t >= 0))
                   \/ Abs(out.t) < Abs(out.given.t))

\* propagate_afspc_compatibility_mode to a negative target on a resonant
\* propagator returned a Prediction
C26_Witness ==
    /\ out.op = "propagate"
    /\ out.afspc
    /\ out.t < 0
    /\ out.given.tag = "Some"
    /\ out.res.tag = "Ok"

\* propagate to a target more than one integrator step after the epoch, on a
\* resonant propagator
C26_Forward ==
    /\ out.op = "propagate"
    /\ ~out.afspc
    /\ out.t > DELTA_T
    /\ out.given.tag = "Some"
    /\ out.res.tag = "Ok"

\* the last call was propagate_from_state on a ResonanceState of a resonant
\* propagator and returned an error; the caller still holds that state
FailedOnState ==
    /\ OnState
    /\ out.res.tag = "Err"
    /\ slot = out.res.state

\* C27: a propagate_from_state call on a ResonanceState that returns an error
\* at t1 leaves the state advanced toward t1, to the last multiple of 720
\* between 0 and t1; the next call on that state, at a t2 of the same sign
\* with |t2| >= |t1|, does not panic and returns what a fresh state returns
\* for t2.
C27_SkipBadPoint ==
    [][(FailedOnState /\ StepOnState /\ out.t * out'.t >= 0 /\ Abs(out'.t) >= Abs(out.t))
       => /\ slot.t = (IF out.t >= 0 THEN 720 * (out.t \div 720)
                                    ELSE -720 * ((-out.t) \div 720))
          /\ out'.res.tag # "Panic"
          /\ out'.res = PropagateFromState(consts, out'.t, InitialState(consts),
                                           out'.afspc)]_vars

\* a state that a failed call left at 720 answers the target 1080 with the
\* Prediction of a fresh state
C27_Witness ==
    /\ OnState
    /\ out.given.t = DELTA_T
    /\ out.t = DELTA_T + HalfStep
    /\ out.res.tag = "Ok"
    /\ PropagateFromState(consts, DELTA_T, InitialState(consts), FALSE).tag = "Err"
    /\ PropagateFromState(consts, DELTA_T, InitialState(consts), FALSE).state.t = DELTA_T

\* a call failed with a diverging perturbed eccentricity and left the cursor at 720
C27_Failed ==
    /\ FailedOnState
    /\ out.res.msg = "diverging perturbed eccentricity"
    /\ out.given.t = 0
    /\ out.res.state.t = DELTA_T

\* refuted by the model: no call that follows a failed call on the same state
\* returns a Prediction
C27_NeverRecovers ==
    [][(FailedOnState /\ StepOnState) => out'.res.tag # "Ok"]_vars

\* C28: Constants::new calls epoch_to_sidereal_time at most once: exactly
\* once, with t0, when it returns a deep-space Constants with Resonant::Yes of
\* either kind, and never when the orbit is rejected, near-earth or deep-space
\* without resonance.  The value of that call is the stored sidereal_time_0
\* and the one in lambda_0 (M0 + O0 + w0 - theta0 for the one-day resonance,
\* M0 + 2 O0 - 2 theta0 for the half-day one, rem 2 pi).
C28_SiderealCallback ==
    out.op = "new" =>
        /\ Len(out.res.sidereal_calls) <= 1
        /\ Len(out.res.sidereal_calls) = 1 <=>
              (consts.tag = "Ok" /\ consts.method.tag = "DeepSpace"
               /\ consts.method.resonant.tag = "Yes")
        /\ Len(out.res.sidereal_calls) = 1 =>
              /\ out.res.sidereal_calls[1] = inp.t0
              /\ consts.method.resonant.sidereal_time_0 = inp.sidereal_time_0
              /\ consts.method.resonant.resonance.tag = "OneDay" =>
                    consts.method.resonant.lambda_0 =
                        Rem(inp.orbit_0.mean_anomaly + inp.orbit_0.right_ascension
                            + inp.orbit_0.argument_of_perigee - inp.sidereal_time_0, 6283)
              /\ consts.method.resonant.resonance.tag = "HalfDay" =>
                    consts.method.resonant.lambda_0 =
                        Rem(inp.orbit_0.mean_anomaly + 2 * inp.orbit_0.right_ascension
                            - 2 * inp.sidereal_time_0, 6283)

\* one call for a half-day resonance
C28_Witness ==
    /\ out.op = "new"
    /\ consts.tag = "Ok"
    /\ consts.method.tag = "DeepSpace"
    /\ consts.method.resonant.tag = "Yes"
    /\ consts.method.resonant.resonance.tag = "HalfDay"
    /\ out.res.sidereal_calls = <<inp.t0>>

\* no call for a deep-space orbit without resonance
C28_NoCall ==
    /\ out.op = "new"
    /\ consts.tag = "Ok"
    /\ consts.method.tag = "DeepSpace"
    /\ consts.method.resonant.tag = "No"
    /\ out.res.sidereal_calls = <<>>

\* C29: with a target that is NaN the guard of integrate fires only when
\* t_i is not zero and its sign differs from the sign bit of the NaN; when it
\* does not fire (as with the fresh state of propagate(NaN)) the stop test
\* never succeeds: integrate neither returns nor aborts, and every pass moves
\* t_i by -720.
C29_UnorderedTarget ==
    (out.op = "integrate" /\ out.t.nonfinite = "NaN") =>
        /\ out.res.pc \in {"panicked", "loop"}
        /\ out.res.pc = "panicked" <=>
              (out.given.t # 0 /\ (out.given.t > 0) # out.t.sign_positive)
        /\ out.res.pc = "panicked" => out.res.state = out.given
        /\ out.res.pc = "loop" => out.res.state.t = out.given.t - 720 * out.res.passes
        /\ slot = out.res.state

\* from a fresh state, integrate to a NaN target is still in its loop after
\* MaxPasses passes, with t_i at -720 MaxPasses
C29_Witness ==
    /\ out.op = "integrate"
    /\ out.t.nonfinite = "NaN"
    /\ out.given.t = 0
    /\ out.res.pc = "loop"
    /\ out.res.passes = MaxPasses
    /\ out.res.state.t = -DELTA_T * MaxPasses

\* C29 as stated: with a target that is NaN the guard never fires and
\* integrate never returns
C29_AsStated ==
    (out.op = "integrate" /\ out.t.nonfinite = "NaN") => out.res.pc = "loop"

\* with a finite target the pass-by-pass run of integrate ends as the call of
\* integrate does
C29_FiniteTargets ==
    (out.op = "integrate" /\ out.t.nonfinite = "no") =>
        \E r \in {Integrate(out.given, IntegrateArgs(consts, out.t))} :
            /\ out.res.pc = "panicked" <=> r.tag = "Panic"
            /\ out.res.pc = "returned" => (r.tag = "Done" /\ r.state = out.res.state
                                           /\ r.steps = out.res.passes)
            /\ out.res.pc = "loop" => (r.tag = "Done" /\ out.res.passes <= r.steps)

====
